---- MODULE Spec2Model ----
(***************************************************************************)
(* Model of the data-access client of web/src/lib/monitoring.ts: one call  *)
(* of fetchAPI against a transport (fetch) whose behaviour is chosen by    *)
(* the environment, with the abort timer and the backoff timers of the     *)
(* call running on an explicit millisecond clock.                          *)
(***************************************************************************)
EXTENDS Integers, Sequences, FiniteSets, TLC

\* ------------------------------------------------------------------------
\* Bounds of the model (not program constants)
\* ------------------------------------------------------------------------

\* largest advance of the clock in one step, in ms
Step == 3000

\* largest number of entries of an object passed to buildQueryString
MaxEntries == 2

\* largest number of queries the query cache holds
MaxQueries == 2

\* bounds of the log endpoint: requests handled at once, payloads accepted
\* in all, the ticks of its clock and the advance of one tick, in ms
MaxHandlers == 2

MaxAccepted == 31

MaxLogTicks == 1

\* debounce: the clock step, and the calls of the debounced function followed
DStep == 100

MaxCalls == 2

\* ImageWithFallback: the lookups of a fallback image under way at a time
MaxLookups == 2

\* seededOffset: the length of the keys followed
MaxKeyLen == 6

\* MapExplorer: the features of a collection
MaxFeatures == 2

\* StatsChart: the length of the data arrays
MaxData == 2

\* ToastProvider: the calls of addToast followed, and the clock step
MaxToasts == 3

ToastStep == 1000

\* ToastProvider.tsx line 21: the delay of the removal timer
ToastMs == 4000

LogStep == 90000

\* app/api/log/route: RATE_LIMIT_MAX and the window of line 24
RATE_LIMIT_MAX == 30

WindowMs == 60000

\* ------------------------------------------------------------------------
\* Program constants
\* ------------------------------------------------------------------------

\* setTimeout(() => controller.abort(), 12000)
TimeoutMs == 12000

\* const backoff = 200 * attempt
BackoffBase == 200

\* ------------------------------------------------------------------------
\* Input domains
\* ------------------------------------------------------------------------

\* options?.method: absent, or one of the HTTP methods
NoMethod == "undefined"

Methods == {NoMethod, "GET", "HEAD", "POST", "PUT", "DELETE"}

\* err.message of a rejection of fetch(): a connection error, an error
\* without a message, or the AbortError raised through controller.signal
AbortMessage == "The operation was aborted"

TransportMessages == {"Failed to fetch", "ECONNRESET", ""}

\* response.status; response.ok is status in 200..299
Statuses == {"200", "404", "500"}

\* what response.json() yields: a rejection (body cut off or not JSON), the
\* JSON value null, an object without a detail field, or an object with a
\* detail string (possibly empty)
NoDetail == "<no detail>"

BadJson == [kind |-> "rejected", detail |-> NoDetail]

JsonNull == [kind |-> "null", detail |-> NoDetail]

DetailStrings == {"", "Conflict not found"}

Objects == [kind : {"object"}, detail : DetailStrings \cup {NoDetail}]

Bodies == {BadJson, JsonNull} \cup Objects

NoResponse == [status |-> "null"]

Responses == [status : Statuses]

NoValue == [kind |-> "none", detail |-> NoDetail]

\* ------------------------------------------------------------------------
\* State
\* ------------------------------------------------------------------------

VARIABLES
    pc,          \* position of the call: idle, fetch (line 66), backoff
                 \* (line 75), errbody (line 86), okbody (line 90),
                 \* returned, thrown
    method,      \* options?.method
    maxRetries,  \* line 60
    attempt,     \* line 61
    response,    \* line 62
    aborted,     \* controller.signal.aborted
    timeoutDue,  \* due time of the abort timer, -1 when not armed
    backoffDue,  \* due time of the pending backoff timer, -1 when none
    now,         \* clock in ms since the call
    result,      \* value the promise resolved with
    error,       \* message of the Error the promise rejected with
    calls,       \* number of invocations of fetch()
    outcomes,    \* history: how each invocation of fetch() settled
    waits,       \* history: start and length of every backoff wait
    starts,      \* history: time of every invocation of fetch()
    body         \* what response.json() yielded

fetchVars == <<pc, method, maxRetries, attempt, response, aborted, timeoutDue,
               backoffDue, now, result, error, calls, outcomes, waits, starts,
               body>>

\* state of the other parts of the application, which a call of fetchAPI
\* leaves alone
VARIABLES
    qFn,         \* the request function of lib/api that was called
    qArgs,       \* its arguments
    qParams,     \* the entries of the object it passed to buildQueryString
    qUrl         \* the endpoint it passed to fetchAPI

queryVars == <<qFn, qArgs, qParams, qUrl>>

VARIABLES
    route,          \* the page shown: home, explorer, data, detail
    yearStart,      \* ExplorerContainer: useState(1000)
    yearEnd,        \* ExplorerContainer: useState(2024)
    selectedTypes,  \* ExplorerContainer: useState([])
    searchQuery,    \* ExplorerContainer: useState("")
    page,           \* DataContainer: useState(1)
    slug,           \* ConflictDetailPage: params.slug
    queries,        \* the cache of the QueryClient: query hash -> query
    issued,         \* history: hash and endpoint of the fetches of the cached queries
    late,           \* history: a response arrived for a query no longer shown
    toggled         \* history: the types toggled an odd number of times

appVars == <<route, yearStart, yearEnd, selectedTypes, searchQuery, page, slug,
             queries, issued, late, toggled>>

VARIABLES
    store,          \* the ConflictRecords the query service reads
    beReq,          \* the last request the query service was sent
    beResp          \* its response

backendVars == <<store, beReq, beResp>>

VARIABLES
    buckets,        \* log endpoint: ip -> timestamps of the accepted payloads
    handlers,       \* the POST requests being handled
    logNow,         \* Date.now() of the server
    accepted,       \* history: ip -> instant -> payloads answered ok: true
    replied         \* history: the status of the last response

logVars == <<buckets, handlers, logNow, accepted, replied>>

VARIABLES
    delay,          \* debounce: the delay the debounced function was made with
    timeoutId,      \* debounce: the pending timer (due time, arguments) or none
    dNow,           \* the clock of the event loop that runs the debounced function
    dLog            \* history: the calls of the debounced function and of fn

debounceVars == <<delay, timeoutId, dNow, dLog>>

VARIABLES
    src,            \* ImageWithFallback: the src prop
    currentSrc,     \* useState(src)
    loading,        \* useState(true)
    hasError,       \* useState(false)
    lookups,        \* the calls of handleError waiting for fetchExternalImage
    failed          \* history: the image of the present src prop failed to load

imageVars == <<src, currentSrc, loading, hasError, lookups, failed>>

VARIABLES
    offsetKey,      \* seededOffset: the characters of key read so far (char codes)
    hash            \* seededOffset: let hash

offsetVars == <<offsetKey, hash>>

VARIABLES
    geoJsonData,    \* MapExplorer: the features of the geoJsonData prop
    markers         \* MapExplorer: the result of the useMemo of lines 29-77

markerVars == <<geoJsonData, markers>>

VARIABLES
    toasts,         \* ToastProvider: useState([]), the toasts shown
    toastTimers,    \* the timers set by addToast and not yet run
    toastNow,       \* Date.now() of the browser
    added           \* history: the number of calls of addToast

toastVars == <<toasts, toastTimers, toastNow, added>>

VARIABLES
    chartData,      \* StatsChart: the data prop
    chartHeight,    \* StatsChart: the height prop
    svg,            \* the content of the svg element
    removed         \* history: the elements the last effect removed at line 84

chartVars == <<chartData, chartHeight, svg, removed>>

\* the components that keep state of their own
uiVars == <<debounceVars, imageVars, offsetVars, markerVars, toastVars, chartVars>>

\* what the actions of one part of the program leave alone
nonFetchVars == <<queryVars, appVars, backendVars, logVars, uiVars>>

nonQueryVars == <<fetchVars, appVars, backendVars, logVars, uiVars>>

nonAppVars == <<fetchVars, queryVars, backendVars, logVars, uiVars>>

nonBackendVars == <<fetchVars, queryVars, appVars, logVars, uiVars>>

nonLogVars == <<fetchVars, queryVars, appVars, backendVars, uiVars>>

serviceVars == <<fetchVars, queryVars, appVars, backendVars, logVars>>

nonDebounceVars == <<serviceVars, imageVars, offsetVars, markerVars, toastVars, chartVars>>

nonImageVars == <<serviceVars, debounceVars, offsetVars, markerVars, toastVars, chartVars>>

nonOffsetVars == <<serviceVars, debounceVars, imageVars, markerVars, toastVars, chartVars>>

nonMarkerVars == <<serviceVars, debounceVars, imageVars, offsetVars, toastVars, chartVars>>

nonToastVars == <<serviceVars, debounceVars, imageVars, offsetVars, markerVars, chartVars>>

nonChartVars == <<serviceVars, debounceVars, imageVars, offsetVars, markerVars, toastVars>>

vars == <<fetchVars, nonFetchVars>>

\* the delays a debounced function is made with
Delays == {DStep, 2 * DStep}

\* the arguments the debounced function is called with
DebounceArgs == {"a", "b"}

\* let timeoutId: no timer set, or a timer already cleared or fired
NoTimeout == [due |-> -1, args |-> ""]

\* the values of the src prop of an ImageWithFallback
ImageSrcs == {"a.png", "b.png", "c.png"}

\* what fetchExternalImage(alt) resolves to: an image of Wikipedia, or none
ExternalImages == {"wiki.png", ""}

\* fallbackSrc = "/placeholder.png"
fallbackSrc == "/placeholder.png"

\* key.charCodeAt(i) of the characters "-", "0", "a", "z"
CharCodes == {45, 48, 97, 122}

\* what a member of geometry.coordinates can be
CoordValues ==
    {[kind |-> "number", n |-> 77], [kind |-> "undefined", n |-> 0],
     [kind |-> "null", n |-> 0], [kind |-> "NaN", n |-> 0]}

\* the features of a GeoJSON collection: without geometry, with a geometry
\* without coordinates, or with a pair of coordinates; no properties.id and
\* no properties.title
Features ==
    {[geometry |-> "point", lng |-> a, lat |-> b] : a, b \in CoordValues}
        \cup {[geometry |-> g, lng |-> [kind |-> "undefined", n |-> 0],
                lat |-> [kind |-> "undefined", n |-> 0]] :
                   g \in {"missing", "nocoordinates"}}

\* the data arrays given to a StatsChart, and its heights
ChartDatums == [label : {"A", "B"}, value : {0, 10}]

ChartData == UNION {[1..n -> ChartDatums] : n \in 0..MaxData}

ChartHeights == {220, 30}

\* an svg element without children
EmptySvg == [groups |-> 0, rects |-> <<>>, axes |-> 0, innerHeight |-> 0]

\* ------------------------------------------------------------------------
\* Pure helpers of fetchAPI
\* ------------------------------------------------------------------------

\* variants of line 60: the test for an absent method dropped; one retry
\* more; the method not looked at
MaxRetriesFor_NoGuard(m) == IF m # "GET" THEN 0 ELSE 2

MaxRetriesFor_Three(m) == IF m # NoMethod /\ m # "GET" THEN 0 ELSE 3

MaxRetriesFor_Any(m) == 2

\* line 60: options?.method && options.method !== "GET" ? 0 : 2
MaxRetriesFor(m) == IF m # NoMethod /\ m # "GET" THEN 0 ELSE 2

\* variant of line 74: the same wait before every retry
Backoff_Constant(n) == BackoffBase

\* line 74: const backoff = 200 * attempt
Backoff(n) == BackoffBase * n

\* line 72: `Network error: ${err?.message || "unknown"}`
NetworkError(msg) == <<"Network error: ", IF msg = "" THEN "unknown" ELSE msg>>

\* response.ok
Ok(r) == r.status = "200"

\* lines 81-85: where the call goes on after the loop
AfterLoop(r) ==
    IF r = NoResponse THEN "thrown"
    ELSE IF Ok(r) THEN "okbody" ELSE "errbody"

\* lines 81-83: the error thrown for a null response
AfterLoopError(r, e) ==
    IF r = NoResponse THEN <<"No response received">> ELSE e

\* variant of lines 86-87: the detail of the body is not looked at
ErrorOf_StatusOnly(r, b) == <<"HTTP ", r.status>>

\* lines 86-87: response.json().catch(() => ({detail: "Unknown error"}))
\* then new Error(error.detail || `HTTP ${response.status}`)
ErrorOf(r, b) ==
    IF b = BadJson THEN <<"Unknown error">>
    ELSE IF b = JsonNull THEN <<"TypeError: Cannot read properties of null">>
    ELSE IF b.detail # NoDetail /\ b.detail # "" THEN <<b.detail>>
    ELSE <<"HTTP ", r.status>>

\* how an invocation of fetch() settled: rejected with a message, or
\* resolved with a response
Failure(msg, t) == [kind |-> "fail", msg |-> msg, status |-> "none", at |-> t]

Received(r, t) == [kind |-> "response", msg |-> "", status |-> r.status, at |-> t]

\* ------------------------------------------------------------------------
\* Values and strings of the request functions
\* ------------------------------------------------------------------------

\* A string is a sequence of pieces: a piece is a run of characters that need
\* no escaping in a query string ("war", "1900") or one reserved character.
\* A JavaScript value is undefined, null, a number, a string or an array of
\* numbers and strings.
Undef == [t |-> "undef", n |-> 0, s |-> <<>>, items |-> <<>>]

Null == [t |-> "null", n |-> 0, s |-> <<>>, items |-> <<>>]

Num(n) == [t |-> "num", n |-> n, s |-> <<>>, items |-> <<>>]

Str(str) == [t |-> "str", n |-> 0, s |-> str, items |-> <<>>]

Arr(items) == [t |-> "arr", n |-> 0, s |-> <<>>, items |-> items]

Entry(key, value) == [key |-> <<key>>, value |-> value]

\* the concatenation of a sequence of strings, with sep between them
RECURSIVE Join(_, _)
Join(strs, sep) ==
    IF strs = <<>> THEN <<>>
    ELSE IF Len(strs) = 1 THEN strs[1]
    ELSE strs[1] \o sep \o Join(Tail(strs), sep)

\* String(v) of a number, a string, or an array (elements joined by ",")
RECURSIVE JsString(_)
JsString(v) ==
    CASE v.t = "num" -> <<ToString(v.n)>>
      [] v.t = "str" -> v.s
      [] v.t = "arr" -> Join([i \in 1..Len(v.items) |-> JsString(v.items[i])],
                             <<",">>)
      [] v.t = "null" -> <<"null">>
      [] v.t = "undef" -> <<"undefined">>

\* URLSearchParams.toString(): the application/x-www-form-urlencoded
\* serialisation escapes the reserved characters of names and values
EncodePiece(c) ==
    CASE c = " " -> "+"
      [] c = "&" -> "%26"
      [] c = "=" -> "%3D"
      [] c = "," -> "%2C"
      [] c = "?" -> "%3F"
      [] OTHER -> c

Encode(str) == [i \in 1..Len(str) |-> EncodePiece(str[i])]

Serialize(pairs) ==
    Join([i \in 1..Len(pairs) |->
              Encode(pairs[i][1]) \o <<"=">> \o Encode(pairs[i][2])],
         <<"&">>)

\* variant of lines 102-106: an array appended as one value
PairsOf_Joined(e) ==
    IF e.value.t \in {"undef", "null"} THEN <<>>
    ELSE << <<e.key, JsString(e.value)>> >>

\* variant of line 100: only undefined skipped
PairsOf_NullKept(e) ==
    IF e.value.t = "undef" THEN <<>>
    ELSE IF e.value.t = "arr"
    THEN [i \in 1..Len(e.value.items) |-> <<e.key, JsString(e.value.items[i])>>]
    ELSE << <<e.key, JsString(e.value)>> >>

\* lines 100-106: what one entry of params appends to searchParams
PairsOf(e) ==
    IF e.value.t \in {"undef", "null"} THEN <<>>
    ELSE IF e.value.t = "arr"
    THEN [i \in 1..Len(e.value.items) |-> <<e.key, JsString(e.value.items[i])>>]
    ELSE << <<e.key, JsString(e.value)>> >>

\* lines 97-107: the loop over Object.entries(params)
RECURSIVE SearchParams(_)
SearchParams(entries) ==
    IF entries = <<>> THEN <<>>
    ELSE PairsOf(entries[1]) \o SearchParams(Tail(entries))

\* lines 96-111
buildQueryString(entries) ==
    LET queryString == Serialize(SearchParams(entries))
    IN  IF queryString # <<>> THEN <<"?">> \o queryString ELSE <<>>

\* filters of a list request: every field undefined or set
NoFilters ==
    [year_start |-> Undef, year_end |-> Undef, conflict_type |-> Undef,
     min_casualties |-> Undef, max_casualties |-> Undef, region |-> Undef,
     search |-> Undef]

\* a default parameter value: used when the argument is undefined
Default(v, d) == IF v.t = "undef" THEN d ELSE v

\* variant of lines 123-133: page_size not sent
ConflictsParams_NoPageSize(filters, aPage, aPageSize) ==
    << Entry("page", Default(aPage, Num(1))),
       Entry("year_start", filters.year_start),
       Entry("year_end", filters.year_end),
       Entry("conflict_type", filters.conflict_type),
       Entry("min_casualties", filters.min_casualties),
       Entry("max_casualties", filters.max_casualties),
       Entry("region", filters.region),
       Entry("search", filters.search) >>

\* lines 118-133: the object getConflicts passes to buildQueryString
ConflictsParams(filters, aPage, aPageSize) ==
    << Entry("page", Default(aPage, Num(1))),
       Entry("page_size", Default(aPageSize, Num(50))),
       Entry("year_start", filters.year_start),
       Entry("year_end", filters.year_end),
       Entry("conflict_type", filters.conflict_type),
       Entry("min_casualties", filters.min_casualties),
       Entry("max_casualties", filters.max_casualties),
       Entry("region", filters.region),
       Entry("search", filters.search) >>

\* lines 159-162
GeoJSONParams(aYearStart, aYearEnd) ==
    << Entry("year_start", aYearStart), Entry("year_end", aYearEnd) >>

\* lines 170-179
TimelineParams(aYearStart, aYearEnd, granularity) ==
    << Entry("year_start", Default(aYearStart, Num(1000))),
       Entry("year_end", Default(aYearEnd, Num(2024))),
       Entry("granularity", Default(granularity, Str(<<"decade">>))) >>

\* ExplorerContainer.tsx lines 33-38: the filters of the explorer
ExplorerFilters(aYearStart, aYearEnd, aSelectedTypes, aSearchQuery) ==
    [NoFilters EXCEPT
        !.year_start = Num(aYearStart),
        !.year_end = Num(aYearEnd),
        !.conflict_type = IF Len(aSelectedTypes) > 0
                          THEN Arr([i \in 1..Len(aSelectedTypes) |->
                                       Str(<<aSelectedTypes[i]>>)])
                          ELSE Undef,
        !.search = IF aSearchQuery # <<>> THEN Str(aSearchQuery) ELSE Undef]

NoArgs ==
    [filters |-> NoFilters, page |-> Undef, pageSize |-> Undef,
     yearStart |-> Undef, yearEnd |-> Undef, granularity |-> Undef]

\* the application at its home page, with an empty query cache
AppInit ==
    /\ route = "home"
    /\ yearStart = 1000
    /\ yearEnd = 2024
    /\ selectedTypes = <<>>
    /\ searchQuery = <<>>
    /\ page = 1
    /\ slug = <<>>
    /\ queries = <<>>
    /\ issued = {}
    /\ late = FALSE
    /\ toggled = {}

\* the request and the response of the query service before any request
NoRequest ==
    [op |-> "none", filters |-> NoFilters, page |-> 0, page_size |-> 0,
     year_start |-> 0, year_end |-> 0, granularity |-> "none"]

NoReply ==
    [kind |-> "none", items |-> <<>>, total |-> 0, page |-> 0, page_size |-> 0,
     total_pages |-> 0, points |-> <<>>]

\* an empty store, no request sent
BackendInit ==
    /\ store = {}
    /\ beReq = NoRequest
    /\ beResp = NoReply

\* the client addresses and the instants of the log endpoint
IPs == {"10.0.0.1"}

LogTimes == {k * LogStep : k \in 0..MaxLogTicks}

\* a handler that is not handling a request
IdleHandler == [pc |-> "idle", ip |-> "none", now |-> 0, bucket |-> <<>>]

\* the module of the log endpoint loaded: const buckets = {}
LogInit ==
    /\ buckets = [ip \in IPs |-> <<>>]
    /\ handlers = [h \in 1..MaxHandlers |-> IdleHandler]
    /\ logNow = 0
    /\ accepted = [ip \in IPs |-> [t \in LogTimes |-> 0]]
    /\ replied = 0

\* no request function called yet
QueryIdle ==
    /\ qFn = "none"
    /\ qArgs = NoArgs
    /\ qParams = <<>>
    /\ qUrl = <<>>

\* ------------------------------------------------------------------------
\* Initial state: no call made yet
\* ------------------------------------------------------------------------

FetchInit ==
    /\ pc = "idle"
    /\ method = NoMethod
    /\ maxRetries = 0
    /\ attempt = 0
    /\ response = NoResponse
    /\ aborted = FALSE
    /\ timeoutDue = -1
    /\ backoffDue = -1
    /\ now = 0
    /\ result = NoValue
    /\ error = <<>>
    /\ calls = 0
    /\ outcomes = <<>>
    /\ waits = <<>>
    /\ starts = <<>>
    /\ body = NoValue

\* before debounce(fn, delay) is called
DebounceInit ==
    /\ delay = 0
    /\ timeoutId = NoTimeout
    /\ dNow = 0
    /\ dLog = <<>>

\* ImageWithFallback.tsx lines 22-24: the component is mounted with a src
ImageInit ==
    /\ src = "a.png"
    /\ currentSrc = src
    /\ loading = TRUE
    /\ hasError = FALSE
    /\ lookups = <<>>
    /\ failed = FALSE

\* MapExplorer.tsx line 20: let hash = 0, before the first character
OffsetInit ==
    /\ offsetKey = <<>>
    /\ hash = 0

\* MapExplorer before any feature has arrived
MarkerInit ==
    /\ geoJsonData = <<>>
    /\ markers = <<>>

\* ToastProvider.tsx line 14: no toast, no timer
ToastInit ==
    /\ toasts = <<>>
    /\ toastTimers = {}
    /\ toastNow = 0
    /\ added = 0

\* StatsChart before it is mounted: the svg element has no content
ChartInit ==
    /\ chartData = <<>>
    /\ chartHeight = 220
    /\ svg = EmptySvg
    /\ removed = 0

Init ==
    /\ FetchInit
    /\ QueryIdle
    /\ AppInit
    /\ BackendInit
    /\ LogInit
    /\ DebounceInit
    /\ ImageInit
    /\ OffsetInit
    /\ MarkerInit
    /\ ToastInit
    /\ ChartInit

\* ------------------------------------------------------------------------
\* Steps of fetchAPI
\* ------------------------------------------------------------------------

\* lines 44-66: the call arms the abort timer, computes maxRetries and
\* issues the first fetch
Call(m) ==
    /\ pc = "idle"
    /\ pc' = "fetch"
    /\ method' = m
    /\ maxRetries' = MaxRetriesFor(m)
    /\ attempt' = 0
    /\ timeoutDue' = now + TimeoutMs
    /\ calls' = calls + 1
    /\ starts' = Append(starts, now)
    /\ UNCHANGED <<response, aborted, backoffDue, now, result, error,
                   outcomes, waits, body>>
    /\ UNCHANGED nonFetchVars

\* variant of line 72: the error of the first failed attempt is kept and
\* wrapped when the retries are exhausted
Catch_FirstError(msg) ==
    /\ attempt' = attempt + 1
    /\ outcomes' = Append(outcomes, Failure(msg, now))
    /\ IF attempt + 1 > maxRetries
       THEN /\ pc' = "thrown"
            /\ timeoutDue' = -1
            /\ error' = NetworkError(IF outcomes = <<>> THEN msg
                                      ELSE outcomes[1].msg)
            /\ UNCHANGED <<backoffDue, waits>>
       ELSE /\ pc' = "backoff"
            /\ backoffDue' = now + Backoff(attempt + 1)
            /\ waits' = Append(waits, [from |-> now, len |-> Backoff(attempt + 1)])
            /\ UNCHANGED <<timeoutDue, error>>
    /\ UNCHANGED <<method, maxRetries, response, aborted, now, result, calls,
                   starts, body>>
    /\ UNCHANGED nonFetchVars

\* variant of line 71: the abort timer is not cleared when the retries are
\* exhausted
Catch_NoClear(msg) ==
    /\ attempt' = attempt + 1
    /\ outcomes' = Append(outcomes, Failure(msg, now))
    /\ IF attempt + 1 > maxRetries
       THEN /\ pc' = "thrown"
            /\ error' = NetworkError(msg)
            /\ UNCHANGED <<backoffDue, waits>>
       ELSE /\ pc' = "backoff"
            /\ backoffDue' = now + Backoff(attempt + 1)
            /\ waits' = Append(waits, [from |-> now, len |-> Backoff(attempt + 1)])
            /\ UNCHANGED error
    /\ UNCHANGED <<method, maxRetries, response, aborted, now, result, calls,
                   starts, body, timeoutDue>>
    /\ UNCHANGED nonFetchVars

\* variant of lines 70-73: when the retries are exhausted the loop is left
\* without throwing, and lines 79-83 run with the response still null
Catch_LeaveLoop(msg) ==
    /\ attempt' = attempt + 1
    /\ outcomes' = Append(outcomes, Failure(msg, now))
    /\ IF attempt + 1 > maxRetries
       THEN /\ pc' = AfterLoop(response)
            /\ timeoutDue' = -1
            /\ error' = AfterLoopError(response, error)
            /\ UNCHANGED <<backoffDue, waits>>
       ELSE /\ pc' = "backoff"
            /\ backoffDue' = now + Backoff(attempt + 1)
            /\ waits' = Append(waits, [from |-> now, len |-> Backoff(attempt + 1)])
            /\ UNCHANGED <<timeoutDue, error>>
    /\ UNCHANGED <<method, maxRetries, response, aborted, now, result, calls,
                   starts, body>>
    /\ UNCHANGED nonFetchVars

\* lines 68-76: the catch block, for a rejection with message msg
Catch(msg) ==
    /\ attempt' = attempt + 1
    /\ outcomes' = Append(outcomes, Failure(msg, now))
    /\ IF attempt + 1 > maxRetries
       THEN /\ pc' = "thrown"
            /\ timeoutDue' = -1
            /\ error' = NetworkError(msg)
            /\ UNCHANGED <<backoffDue, waits>>
       ELSE /\ pc' = "backoff"
            /\ backoffDue' = now + Backoff(attempt + 1)
            /\ waits' = Append(waits, [from |-> now, len |-> Backoff(attempt + 1)])
            /\ UNCHANGED <<timeoutDue, error>>
    /\ UNCHANGED <<method, maxRetries, response, aborted, now, result, calls,
                   starts, body>>
    /\ UNCHANGED nonFetchVars

\* the transport could not complete the request (connection error)
FetchFail(msg) ==
    /\ pc = "fetch"
    /\ ~aborted
    /\ Catch(msg)

\* the pending fetch is rejected through the aborted signal
FetchAbort ==
    /\ pc = "fetch"
    /\ aborted
    /\ Catch(AbortMessage)

\* variant of lines 66-67: a response that is not ok is thrown inside the
\* try block and so handled by the catch block like a transport failure
FetchRespond_ThrowInTry(r) ==
    /\ pc = "fetch"
    /\ ~aborted
    /\ IF Ok(r)
       THEN /\ response' = r
            /\ outcomes' = Append(outcomes, Received(r, now))
            /\ timeoutDue' = -1
            /\ pc' = "okbody"
            /\ UNCHANGED <<attempt, backoffDue, error, waits>>
       ELSE /\ attempt' = attempt + 1
            /\ outcomes' = Append(outcomes, Received(r, now))
            /\ IF attempt + 1 > maxRetries
               THEN /\ pc' = "thrown"
                    /\ timeoutDue' = -1
                    /\ error' = NetworkError("HTTP error")
                    /\ UNCHANGED <<backoffDue, waits, response>>
               ELSE /\ pc' = "backoff"
                    /\ backoffDue' = now + Backoff(attempt + 1)
                    /\ waits' = Append(waits, [from |-> now,
                                               len |-> Backoff(attempt + 1)])
                    /\ UNCHANGED <<timeoutDue, error, response>>
    /\ UNCHANGED <<method, maxRetries, aborted, now, result, calls, starts,
                   body>>
    /\ UNCHANGED nonFetchVars

\* lines 66-67, 79-90: a response arrives; the loop is left, the abort
\* timer is cleared and the body is read
FetchRespond(r) ==
    /\ pc = "fetch"
    /\ ~aborted
    /\ response' = r
    /\ outcomes' = Append(outcomes, Received(r, now))
    /\ timeoutDue' = -1
    /\ pc' = AfterLoop(r)
    /\ error' = AfterLoopError(r, error)
    /\ UNCHANGED <<method, maxRetries, attempt, aborted, backoffDue, now,
                   result, calls, waits, starts, body>>
    /\ UNCHANGED nonFetchVars

\* line 48: the abort timer fires
TimeoutFire ==
    /\ timeoutDue # -1
    /\ now = timeoutDue
    /\ aborted' = TRUE
    /\ timeoutDue' = -1
    /\ UNCHANGED <<pc, method, maxRetries, attempt, response, backoffDue, now,
                   result, error, calls, outcomes, waits, starts, body>>
    /\ UNCHANGED nonFetchVars

\* variant of lines 47-48: a controller and an abort timer of its own for
\* every attempt
BackoffDone_FreshController ==
    /\ pc = "backoff"
    /\ now = backoffDue
    /\ backoffDue' = -1
    /\ pc' = "fetch"
    /\ calls' = calls + 1
    /\ starts' = Append(starts, now)
    /\ aborted' = FALSE
    /\ timeoutDue' = now + TimeoutMs
    /\ UNCHANGED <<method, maxRetries, attempt, response, now, result, error,
                   outcomes, waits, body>>
    /\ UNCHANGED nonFetchVars

\* lines 75, 64-66: the backoff timer fires and the next fetch is issued
BackoffDone ==
    /\ pc = "backoff"
    /\ now = backoffDue
    /\ backoffDue' = -1
    /\ pc' = "fetch"
    /\ calls' = calls + 1
    /\ starts' = Append(starts, now)
    /\ UNCHANGED <<method, maxRetries, attempt, response, aborted, timeoutDue,
                   now, result, error, outcomes, waits, body>>
    /\ UNCHANGED nonFetchVars

\* lines 86-87: the body of an error response has been read
ErrorBody(b) ==
    /\ pc = "errbody"
    /\ body' = b
    /\ pc' = "thrown"
    /\ error' = ErrorOf(response, b)
    /\ UNCHANGED <<method, maxRetries, attempt, response, aborted, timeoutDue,
                   backoffDue, now, result, calls, outcomes, waits, starts>>
    /\ UNCHANGED nonFetchVars

\* line 90: the body of an OK response has been read
OkBody(b) ==
    /\ pc = "okbody"
    /\ body' = b
    /\ IF b = BadJson
       THEN /\ pc' = "thrown"
            /\ error' = <<"SyntaxError">>
            /\ UNCHANGED result
       ELSE /\ pc' = "returned"
            /\ result' = b
            /\ UNCHANGED error
    /\ UNCHANGED <<method, maxRetries, attempt, response, aborted, timeoutDue,
                   backoffDue, now, calls, outcomes, waits, starts>>
    /\ UNCHANGED nonFetchVars

\* ------------------------------------------------------------------------
\* The clock: time passes up to the next due timer
\* ------------------------------------------------------------------------

Min(a, b) == IF a < b THEN a ELSE b

Armed == {t \in {timeoutDue, backoffDue} : t # -1}

NextDue == CHOOSE t \in Armed : \A u \in Armed : t <= u

Tick ==
    /\ Armed # {}
    /\ now < NextDue
    /\ now' = Min(now + Step, NextDue)
    /\ UNCHANGED <<pc, method, maxRetries, attempt, response, aborted,
                   timeoutDue, backoffDue, result, error, calls, outcomes,
                   waits, starts, body>>
    /\ UNCHANGED nonFetchVars

\* ------------------------------------------------------------------------
\* Specification
\* ------------------------------------------------------------------------

Next ==
    \/ \E m \in Methods : Call(m)
    \/ \E msg \in TransportMessages : FetchFail(msg)
    \/ FetchAbort
    \/ \E r \in Responses : FetchRespond(r)
    \/ TimeoutFire
    \/ BackoffDone
    \/ \E b \in Bodies : ErrorBody(b)
    \/ \E b \in Bodies : OkBody(b)
    \/ Tick

Spec == Init /\ [][Next]_vars

\* the timers of the runtime fire and the code runs when it can; the
\* transport owes nothing
FairSpec ==
    /\ Spec
    /\ WF_vars(Tick)
    /\ WF_vars(TimeoutFire)
    /\ WF_vars(BackoffDone)
    /\ WF_vars(FetchAbort)

\* ------------------------------------------------------------------------
\* Properties of the retry policy
\* ------------------------------------------------------------------------

\* the first k invocations of fetch() were rejected
FirstFailed(k) ==
    /\ Len(outcomes) >= k
    /\ \A i \in 1..k : outcomes[i].kind = "fail"

GetCall == pc # "idle" /\ method \in {NoMethod, "GET"}

\* C1: a GET call whose transport fails on the first k attempts (k = 1 or
\* 2) is still running after those k failures, and if attempt k+1 is
\* answered with an OK response then fetch() was invoked exactly k+1 times
\* and the call returns the parsed body of that response.
C1_FailThenSucceed ==
    \A k \in {1, 2} :
        (GetCall /\ FirstFailed(k)) =>
            /\ Len(outcomes) = k => pc \in {"backoff", "fetch"}
            /\ (Len(outcomes) = k + 1 /\ outcomes[k + 1].status = "200") =>
                   /\ calls = k + 1
                   /\ pc \in {"okbody", "returned", "thrown"}
                   /\ pc = "returned" => result = body
                   /\ pc = "thrown" => body = BadJson

\* a GET call that failed twice and then returned a body
C1_Witness ==
    /\ GetCall
    /\ FirstFailed(2)
    /\ pc = "returned"
    /\ calls = 3
    /\ result = body
    /\ result \in Objects

\* C2: an invocation of fetch() that was answered with an error status is
\* the last one of its call: the call reads the error body and throws, so
\* a first attempt answered with HTTP 500 leaves fetch() invoked once.
C2_NoRetryAfterErrorResponse ==
    \A i \in 1..Len(outcomes) :
        (outcomes[i].kind = "response" /\ outcomes[i].status # "200") =>
            /\ i = Len(outcomes)
            /\ calls = i
            /\ pc \in {"errbody", "thrown"}
            /\ backoffDue = -1

\* the first attempt was answered with HTTP 500 and the call has failed
C2_Witness ==
    /\ pc = "thrown"
    /\ Len(outcomes) = 1
    /\ outcomes[1].status = "500"
    /\ calls = 1

\* C3: one call invokes fetch() at most 3 times.
C3_AtMostThreeAttempts == calls <= 3 /\ Len(starts) = calls

\* all three attempts were used
C3_Witness == calls = 3 /\ pc = "thrown" /\ FirstFailed(3)

\* every invocation of fetch() so far was rejected
AllFailed == \A i \in 1..Len(outcomes) : outcomes[i].kind = "fail"

\* the methods of read requests: they carry no body and change nothing
ReadMethods == {NoMethod, "GET", "HEAD"}

\* the methods line 60 gives retries to
RetriedMethods == {NoMethod, "GET"}

\* C4 as stated: a call is retried only if it is a read request, a
\* mutating request is attempted exactly once, and a read request is not
\* given up before its third attempt has failed.
C4_ReadRequestsRetried ==
    /\ calls > 1 => method \in ReadMethods
    /\ (pc # "idle" /\ method \notin ReadMethods) => calls = 1
    /\ (pc # "idle" /\ method \in ReadMethods /\ AllFailed
          /\ Len(outcomes) <= 2) => pc \in {"fetch", "backoff"}

\* C4 as amended: a call is retried only if its method is absent or
\* "GET"; a call with any other method is attempted exactly once whatever
\* the transport does; a call without method or with method "GET" is not
\* given up before its third attempt has failed.
C4_GetRequestsRetried ==
    /\ calls > 1 => method \in RetriedMethods
    /\ (pc # "idle" /\ method \notin RetriedMethods) =>
           /\ calls = 1
           /\ pc # "backoff"
           /\ Len(outcomes) = 1 => pc \in {"thrown", "okbody", "errbody", "returned"}
    /\ (pc # "idle" /\ method \in RetriedMethods /\ AllFailed
          /\ Len(outcomes) <= 2) => pc \in {"fetch", "backoff"}

\* a mutating call whose only attempt was rejected has failed
C4_Witness ==
    /\ method = "POST"
    /\ pc = "thrown"
    /\ calls = 1
    /\ FirstFailed(1)

\* the call threw after an error response whose body was read as b
ThrownForResponse ==
    /\ pc = "thrown"
    /\ response # NoResponse
    /\ ~Ok(response)

\* C5 as stated: the error thrown for an error response carries the
\* detail string of the body if the body has one, and otherwise (no detail
\* field, body not parseable) "HTTP <status>".
C5_DetailElseStatus ==
    ThrownForResponse =>
        IF body \in Objects /\ body.detail # NoDetail
        THEN error = <<body.detail>>
        ELSE error = <<"HTTP ", response.status>>

\* C5 as amended: the error thrown for an error response carries the
\* detail string of the body if the body is an object with a non-empty
\* one, "HTTP <status>" if the body is an object with no detail or an empty
\* one, and "Unknown error" if the body is not parseable.
C5_DetailStatusOrUnknown ==
    ThrownForResponse =>
        /\ (body \in Objects /\ body.detail \notin {NoDetail, ""}) =>
               error = <<body.detail>>
        /\ (body \in Objects /\ body.detail \in {NoDetail, ""}) =>
               error = <<"HTTP ", response.status>>
        /\ body = BadJson => error = <<"Unknown error">>

\* an error response with a body that is not JSON
C5_Witness ==
    /\ ThrownForResponse
    /\ response.status = "500"
    /\ body = BadJson
    /\ error = <<"Unknown error">>

\* C6: a call all of whose attempts were rejected fails with a network
\* error that wraps the message of the rejection of the last attempt
\* ("unknown" when that rejection has no message).
C6_WrapsLastFailure ==
    (pc = "thrown" /\ outcomes # <<>> /\ AllFailed) =>
        /\ Len(outcomes) = maxRetries + 1
        /\ Len(error) = 2
        /\ error[1] = "Network error: "
        /\ outcomes[Len(outcomes)].msg # "" =>
               error[2] = outcomes[Len(outcomes)].msg
        /\ outcomes[Len(outcomes)].msg = "" => error[2] = "unknown"

\* three rejections, the last with another message than the first
C6_Witness ==
    /\ pc = "thrown"
    /\ FirstFailed(3)
    /\ outcomes[1].msg = "Failed to fetch"
    /\ outcomes[3].msg = "ECONNRESET"
    /\ error = <<"Network error: ", "ECONNRESET">>

\* ------------------------------------------------------------------------
\* Properties of the timers
\* ------------------------------------------------------------------------

\* an attempt of the call was rejected through the abort timer
TimedOut == \E i \in 1..Len(outcomes) : outcomes[i].msg = AbortMessage

\* C7: an attempt of a read call that is in flight when the abort timer
\* fires is rejected, counts as one failed attempt and is retried, and the
\* retry can still be answered with a response.
C7_RetryAfterTimeoutCanRespond ==
    (GetCall /\ TimedOut /\ pc = "fetch") =>
        ENABLED (\E r \in Responses : FetchRespond(r))

\* C8: attempt n+1 starts base * n after the n-th failed attempt (200 ms
\* after the first failure, 400 ms after the second), and the call throws
\* at the time of its last failure, with no wait pending.
C8_LinearBackoff ==
    /\ \A n \in 1..Len(starts) - 1 :
           /\ outcomes[n].kind = "fail"
           /\ n = 1 => starts[n + 1] - outcomes[n].at = 200
           /\ n = 2 => starts[n + 1] - outcomes[n].at = 400
           /\ n <= 2
    /\ (pc = "backoff") =>
           /\ Len(waits) = Len(outcomes)
           /\ backoffDue = outcomes[Len(outcomes)].at + 200 * Len(outcomes)
           /\ now <= backoffDue
    /\ (pc = "thrown" /\ AllFailed) =>
           /\ backoffDue = -1
           /\ Len(waits) = Len(outcomes) - 1
           /\ now = outcomes[Len(outcomes)].at

\* both waits were made and the call has failed after the third attempt
C8_Witness ==
    /\ pc = "thrown"
    /\ FirstFailed(3)
    /\ starts[2] - outcomes[1].at = 200
    /\ starts[3] - outcomes[2].at = 400
    /\ outcomes[1].at > starts[1]

\* the state of the request in the terms of the state machine
ReqState ==
    CASE pc = "idle" -> "idle"
      [] pc \in {"fetch", "okbody", "errbody"} -> "in_flight"
      [] pc = "backoff" -> "retry_wait"
      [] pc = "returned" -> "success"
      [] pc = "thrown" -> "failed"

Transitions ==
    { <<"idle", "in_flight">>, <<"in_flight", "success">>,
      <<"in_flight", "failed">>, <<"in_flight", "retry_wait">>,
      <<"retry_wait", "in_flight">> }

\* C9: the state of a call changes only along idle -> in_flight,
\* in_flight -> success, in_flight -> failed, in_flight -> retry_wait and
\* retry_wait -> in_flight; fetch() is invoked only on entering in_flight
\* from idle or retry_wait; and nothing changes once the call is in
\* success or failed.
C9_StateMachine ==
    [][ /\ ReqState' # ReqState => <<ReqState, ReqState'>> \in Transitions
        /\ calls' # calls =>
               /\ calls' = calls + 1
               /\ ReqState \in {"idle", "retry_wait"}
               /\ ReqState' = "in_flight"
        /\ ReqState \in {"success", "failed"} => vars' = vars ]_vars

\* the call has failed after going through retry_wait twice
C9_Witness ==
    /\ ReqState = "failed"
    /\ Len(waits) = 2
    /\ calls = 3

\* C10: every call eventually reaches success or failed, whatever the
\* transport does, provided armed timers fire.
C10_Terminates == (pc = "fetch") ~> (pc \in {"returned", "thrown"})

\* C20: the abort timer and the signal are shared by all attempts and
\* waits of a call: once the timer has fired no attempt of the call is
\* answered with a response, the call never returns, and it ends thrown
\* with a network error.
C20_SharedTimer ==
    /\ [](( aborted \/ TimedOut ) =>
            /\ response = NoResponse
            /\ pc \in {"fetch", "backoff", "thrown"}
            /\ AllFailed
            /\ timeoutDue = -1
            /\ pc = "thrown" => (Len(error) = 2 /\ error[1] = "Network error: "))
    /\ (aborted ~> (pc = "thrown" /\ error[1] = "Network error: "))

\* the timer fired during the first attempt and both retries were rejected
\* through the aborted signal
C20_Witness ==
    /\ pc = "thrown"
    /\ aborted
    /\ calls = 3
    /\ \A i \in 1..3 : outcomes[i].msg = AbortMessage
    /\ error = <<"Network error: ", AbortMessage>>

\* ------------------------------------------------------------------------
\* The request functions of lib/api
\* ------------------------------------------------------------------------

\* values that occur as parameters
Scalars ==
    {Num(1900), Str(<<"war">>), Str(<<"a", " ", "b">>), Str(<<"x", "&", "y">>),
     Str(<<>>)}

Arrays ==
    {Arr(<<>>), Arr(<<Str(<<"war">>), Str(<<"famine">>)>>),
     Arr(<<Num(1), Str(<<"a", "=", "b">>)>>)}

Values == {Undef, Null} \cup Scalars \cup Arrays

Keys == {"conflict_type", "year_start", "search"}

\* the objects of at most MaxEntries entries, as Object.entries lists them:
\* every key once, in insertion order
ParamObjects ==
    UNION { { e \in [1..n -> [key : {<<k>> : k \in Keys}, value : Values]] :
                \A i, j \in 1..n : i # j => e[i].key # e[j].key } :
            n \in 0..MaxEntries }

FilterObjects ==
    [year_start : {Undef, Num(1947)},
     year_end : {Undef, Num(1947)},
     conflict_type : {Undef, Arr(<<>>), Arr(<<Str(<<"partition_event">>)>>),
                      Arr(<<Str(<<"war">>), Str(<<"famine">>)>>)},
     min_casualties : {Undef, Num(0)},
     max_casualties : {Undef, Num(1000)},
     region : {Undef, Str(<<"Punjab">>)},
     search : {Undef, Str(<<>>), Str(<<"a", " ", "b">>)}]

\* what the sliders, the type buttons and the search box of the explorer
\* can hold
SliderYears == {1000, 1947, 2024}

TypeSelections == {<<>>, <<"war">>, <<"famine">>, <<"war", "famine">>,
                   <<"famine", "war">>}

SearchTexts == {<<>>, <<"raj">>}

\* a direct call of buildQueryString
BuildQueryStringCall(entries) ==
    /\ qFn = "none"
    /\ qFn' = "buildQueryString"
    /\ qParams' = entries
    /\ qUrl' = buildQueryString(entries)
    /\ UNCHANGED <<qArgs, nonQueryVars>>

\* lib/monitoring.ts lines 118-136
getConflicts(filters, aPage, aPageSize) ==
    /\ qFn = "none"
    /\ qFn' = "getConflicts"
    /\ qArgs' = [NoArgs EXCEPT !.filters = filters, !.page = aPage,
                               !.pageSize = aPageSize]
    /\ qParams' = ConflictsParams(filters, aPage, aPageSize)
    /\ qUrl' = <<"/api/conflicts">>
               \o buildQueryString(ConflictsParams(filters, aPage, aPageSize))
    /\ UNCHANGED nonQueryVars

\* lines 155-165
getConflictsGeoJSON(aYearStart, aYearEnd) ==
    /\ qFn = "none"
    /\ qFn' = "getConflictsGeoJSON"
    /\ qArgs' = [NoArgs EXCEPT !.yearStart = aYearStart, !.yearEnd = aYearEnd]
    /\ qParams' = GeoJSONParams(aYearStart, aYearEnd)
    /\ qUrl' = <<"/api/conflicts/geojson">>
               \o buildQueryString(GeoJSONParams(aYearStart, aYearEnd))
    /\ UNCHANGED nonQueryVars

\* lines 170-182
getTimeline(aYearStart, aYearEnd, granularity) ==
    /\ qFn = "none"
    /\ qFn' = "getTimeline"
    /\ qArgs' = [NoArgs EXCEPT !.yearStart = aYearStart, !.yearEnd = aYearEnd,
                               !.granularity = granularity]
    /\ qParams' = TimelineParams(aYearStart, aYearEnd, granularity)
    /\ qUrl' = <<"/api/conflicts/timeline">>
               \o buildQueryString(TimelineParams(aYearStart, aYearEnd, granularity))
    /\ UNCHANGED nonQueryVars

QueryNext ==
    \/ \E entries \in ParamObjects : BuildQueryStringCall(entries)
    \/ \E f \in FilterObjects, p \in {Undef, Num(2)},
          ps \in {Undef, Num(25), Num(100)} : getConflicts(f, p, ps)
    \/ \E ys, ye \in SliderYears, types \in TypeSelections, sq \in SearchTexts :
          getConflicts(ExplorerFilters(ys, ye, types, sq), Num(1), Num(100))
    \/ \E ys, ye \in {Undef, Num(1000), Num(2024)} : getConflictsGeoJSON(ys, ye)
    \/ \E ys \in {Undef, Num(1900)}, ye \in {Undef, Num(2024)},
          g \in {Undef, Str(<<"year">>), Str(<<"decade">>), Str(<<"century">>)} :
          getTimeline(ys, ye, g)

QuerySpec == Init /\ [][QueryNext]_vars

\* ------------------------------------------------------------------------
\* Properties of the query strings
\* ------------------------------------------------------------------------

\* the query string of the request: what buildQueryString returned
QueryPart == IF qFn = "buildQueryString" THEN qUrl ELSE Tail(qUrl)

\* the segments of str between the pieces sep
RECURSIVE Split(_, _)
Split(str, sep) ==
    IF \A i \in 1..Len(str) : str[i] # sep THEN <<str>>
    ELSE LET i == CHOOSE i \in 1..Len(str) :
                      str[i] = sep /\ \A j \in 1..i - 1 : str[j] # sep
         IN  <<SubSeq(str, 1, i - 1)>> \o Split(SubSeq(str, i + 1, Len(str)), sep)

DecodePiece(c) ==
    CASE c = "+" -> " "
      [] c = "%26" -> "&"
      [] c = "%3D" -> "="
      [] c = "%2C" -> ","
      [] c = "%3F" -> "?"
      [] OTHER -> c

Decode(str) == [i \in 1..Len(str) |-> DecodePiece(str[i])]

\* the name=value pairs a server reads from a query string
ParsePairs(query) ==
    IF query = <<>> THEN <<>>
    ELSE LET segs == Split(Tail(query), "&")
         IN  [i \in 1..Len(segs) |->
                 LET nv == Split(segs[i], "=")
                 IN  <<Decode(nv[1]), Decode(nv[2])>>]

\* the number of pairs an entry is to yield, and its k-th value
Emitted(e) ==
    IF e.value.t \in {"undef", "null"} THEN 0
    ELSE IF e.value.t = "arr" THEN Len(e.value.items) ELSE 1

ValueAt(e, k) == IF e.value.t = "arr" THEN e.value.items[k] ELSE e.value

Text(v) == IF v.t = "num" THEN <<ToString(v.n)>> ELSE v.s

RECURSIVE EmittedBefore(_, _)
EmittedBefore(entries, j) ==
    IF j = 1 THEN 0 ELSE EmittedBefore(entries, j - 1) + Emitted(entries[j - 1])

SpecExample ==
    << Entry("conflict_type", Arr(<<Str(<<"war">>), Str(<<"famine">>)>>)),
       Entry("year_start", Num(1900)) >>

\* C11: the query string holds, in the order of the entries, no pair for an
\* undefined or null value, one pair per element of an array in element
\* order, one pair for any other value; it is "?" followed by the pairs
\* joined by "&", and empty when there is no pair.
C11_Flattening ==
    qFn # "none" =>
        LET pairs == ParsePairs(QueryPart)
        IN  /\ Len(pairs) = EmittedBefore(qParams, Len(qParams) + 1)
            /\ \A j \in 1..Len(qParams) : \A k \in 1..Emitted(qParams[j]) :
                   pairs[EmittedBefore(qParams, j) + k]
                       = <<qParams[j].key, Text(ValueAt(qParams[j], k))>>
            /\ (Len(pairs) = 0) = (QueryPart = <<>>)
            /\ QueryPart # <<>> =>
                   /\ QueryPart[1] = "?"
                   /\ Len(Split(QueryPart, "&")) = Len(pairs)
            /\ qParams = SpecExample =>
                   QueryPart = <<"?", "conflict_type", "=", "war", "&",
                                 "conflict_type", "=", "famine", "&",
                                 "year_start", "=", "1900">>

\* the example of the specification has been built
C11_Witness ==
    /\ qFn = "buildQueryString"
    /\ qParams = SpecExample
    /\ qUrl = <<"?", "conflict_type", "=", "war", "&", "conflict_type", "=",
                "famine", "&", "year_start", "=", "1900">>

FilterNames ==
    <<"year_start", "year_end", "conflict_type", "min_casualties",
      "max_casualties", "region", "search">>

\* the pairs of a list whose name is name
RECURSIVE Named(_, _)
Named(pairs, name) ==
    IF pairs = <<>> THEN <<>>
    ELSE IF pairs[1][1] = <<name>>
         THEN <<pairs[1][2]>> \o Named(Tail(pairs), name)
         ELSE Named(Tail(pairs), name)

IndexOf(name) == CHOOSE i \in 1..Len(FilterNames) : <<FilterNames[i]>> = name

\* C12: a list request carries page and page_size first (1 and 50 when not
\* given), then exactly the filters that are set, in the fixed order, the
\* selected types as repeated conflict_type parameters, and nothing else; an
\* empty selection of types sends no conflict_type parameter.
C12_ListParameters ==
    qFn = "getConflicts" =>
        LET pairs == ParsePairs(QueryPart)
            rest == SubSeq(pairs, 3, Len(pairs))
            f == qArgs.filters
        IN  /\ qUrl[1] = "/api/conflicts"
            /\ Len(pairs) >= 2
            /\ pairs[1] = <<<<"page">>,
                            IF qArgs.page = Undef THEN <<"1">> ELSE Text(qArgs.page)>>
            /\ pairs[2] = <<<<"page_size">>,
                            IF qArgs.pageSize = Undef THEN <<"50">>
                            ELSE Text(qArgs.pageSize)>>
            /\ \A i \in 1..Len(rest) :
                   \E n \in 1..Len(FilterNames) : rest[i][1] = <<FilterNames[n]>>
            /\ \A i, j \in 1..Len(rest) :
                   i < j => IndexOf(rest[i][1]) <= IndexOf(rest[j][1])
            /\ \A n \in 1..Len(FilterNames) :
                   LET v == f[FilterNames[n]]
                       sent == Named(rest, FilterNames[n])
                   IN  CASE v.t = "undef" -> sent = <<>>
                         [] v.t = "arr" -> sent = [k \in 1..Len(v.items) |->
                                                      Text(v.items[k])]
                         [] OTHER -> sent = <<Text(v)>>
            /\ f.conflict_type \in {Undef, Arr(<<>>)} =>
                   Named(pairs, "conflict_type") = <<>>

\* a list request with defaults for the page, two types and a search text
C12_Witness ==
    /\ qFn = "getConflicts"
    /\ qArgs.page = Undef
    /\ qArgs.pageSize = Undef
    /\ qArgs.filters.year_start = Num(1947)
    /\ qArgs.filters.conflict_type = Arr(<<Str(<<"war">>), Str(<<"famine">>)>>)
    /\ qArgs.filters.search = Str(<<"a", " ", "b">>)
    /\ qArgs.filters.region = Undef
    /\ qArgs.filters.year_end = Undef
    /\ qArgs.filters.min_casualties = Undef
    /\ qArgs.filters.max_casualties = Undef
    /\ qUrl = <<"/api/conflicts", "?", "page", "=", "1", "&", "page_size", "=",
                "50", "&", "year_start", "=", "1947", "&", "conflict_type", "=",
                "war", "&", "conflict_type", "=", "famine", "&", "search", "=",
                "a", "+", "b">>

\* ------------------------------------------------------------------------
\* The query layer: components, their query keys and the query cache
\* ------------------------------------------------------------------------

\* the retry option of a query: components/layout/Providers.tsx lines 12-19
\* set staleTime and refetchOnWindowFocus only, which leaves the default of
\* the query library, three retries of a failed query function
DefaultRetry == 3

\* JSON.stringify of a value
RECURSIVE JsonValue(_)
JsonValue(v) ==
    CASE v.t = "num" -> <<ToString(v.n)>>
      [] v.t = "str" -> <<"\"">> \o v.s \o <<"\"">>
      [] v.t = "arr" -> <<"[">>
                        \o Join([i \in 1..Len(v.items) |-> JsonValue(v.items[i])],
                                <<",">>)
                        \o <<"]">>
      [] OTHER -> <<"null">>

\* the names of ConflictFilters in the order the key hash sorts them
SortedFilterNames ==
    <<"conflict_type", "max_casualties", "min_casualties", "region", "search",
      "year_end", "year_start">>

\* the key hash of a filters object: members sorted by name, undefined
\* members left out
JsonFilters(f) ==
    LET Member(name) ==
            IF f[name].t = "undef" THEN <<>>
            ELSE << <<"\"", name, "\"", ":">> \o JsonValue(f[name]) >>
        members == Member(SortedFilterNames[1]) \o Member(SortedFilterNames[2])
                   \o Member(SortedFilterNames[3]) \o Member(SortedFilterNames[4])
                   \o Member(SortedFilterNames[5]) \o Member(SortedFilterNames[6])
                   \o Member(SortedFilterNames[7])
    IN  <<"{">> \o Join(members, <<",">>) \o <<"}">>

\* the hash of a query key, an array of JSON texts
HashKey(parts) == <<"[">> \o Join(parts, <<",">>) \o <<"]">>

\* variant of ExplorerContainer.tsx line 41: the key leaves the filters out
ExplorerListKey_NoFilters(f) == HashKey(<<JsonValue(Str(<<"conflicts">>))>>)

\* ExplorerContainer.tsx line 41: queryKey: ["conflicts", filters]
ExplorerListKey(f) ==
    HashKey(<<JsonValue(Str(<<"conflicts">>)), JsonFilters(f)>>)

\* ExplorerContainer.tsx line 46
ExplorerGeoJSONKey(ys, ye) ==
    HashKey(<<JsonValue(Str(<<"conflicts-geojson">>)), JsonValue(Num(ys)),
              JsonValue(Num(ye))>>)

\* ExplorerContainer.tsx line 51, DataContainer line 134
StatsKey == HashKey(<<JsonValue(Str(<<"stats-summary">>))>>)

\* DataContainer line 129: queryKey: ["conflicts", page]
DataListKey(p) ==
    HashKey(<<JsonValue(Str(<<"conflicts">>)), JsonValue(Num(p))>>)

\* DataContainer line 139
DataTimelineKey == HashKey(<<JsonValue(Str(<<"timeline-decade">>))>>)

\* TimelineChart.tsx line 15
TimelineChartKey == HashKey(<<JsonValue(Str(<<"timeline">>))>>)

\* StoryContainer.tsx line 142
StoryTimelineKey == HashKey(<<JsonValue(Str(<<"timeline-century">>))>>)

\* the detail page: queryKey: ["conflict", slug]
DetailKey(sl) ==
    HashKey(<<JsonValue(Str(<<"conflict">>)), JsonValue(Str(sl))>>)

\* the endpoint each request function fetches
ConflictsUrl(f, p, ps) ==
    <<"/api/conflicts">> \o buildQueryString(ConflictsParams(f, p, ps))

GeoJSONUrl(ys, ye) ==
    <<"/api/conflicts/geojson">> \o buildQueryString(GeoJSONParams(ys, ye))

TimelineUrl(ys, ye, g) ==
    <<"/api/conflicts/timeline">> \o buildQueryString(TimelineParams(ys, ye, g))

StatsUrl == <<"/api/stats/summary">>

SlugUrl(sl) == <<"/api/conflicts/by-slug/">> \o sl

\* the values the model gives to the state of the components
AppYears == {1000, 2024}

AppTypes == {"war", "famine"}

AppSlugs == {<<"plassey">>}

AppPages == 0..2

\* a page of the list as the backend answered it
Payloads == {[items |-> 0, total_pages |-> 0], [items |-> 1, total_pages |-> 2]}

FailureReasons == {"http", "network"}

\* what a query holds before its first response
NoData == [for |-> <<>>, items |-> 0, total_pages |-> 0, defined |-> FALSE]

\* a query the cache creates for an observer, its query function started
NewQuery(url) ==
    [url |-> url, status |-> "pending", fetching |-> TRUE, failureCount |-> 0,
     failureReason |-> "none", data |-> NoData]

\* the selections of types the explorer can hold
AppSelections == UNION {[1..n -> AppTypes] : n \in 0..3}

\* ExplorerContainer.tsx lines 33-43: the hash of the key and the request of
\* the list query, for every state of the filters (computed once)
ExplorerList ==
    [x \in AppYears \X AppYears \X AppSelections \X SearchTexts |->
        [key |-> ExplorerListKey(ExplorerFilters(x[1], x[2], x[3], x[4])),
         url |-> ConflictsUrl(ExplorerFilters(x[1], x[2], x[3], x[4]),
                              Num(1), Num(100))]] @@ <<>>

\* DataContainer lines 128-131, for every page
DataList ==
    [p \in AppPages |->
        [key |-> DataListKey(p),
         url |-> ConflictsUrl(NoFilters, Num(p), Num(25))]] @@ <<>>

\* the query the component shown observes, and the request its queryFn makes
KeyOf(r, ys, ye, st, sq, p, sl) ==
    CASE r = "explorer" -> ExplorerList[<<ys, ye, st, sq>>].key
      [] r = "data" -> DataList[p].key
      [] r = "detail" -> DetailKey(sl)
      [] OTHER -> <<>>

UrlOf(r, ys, ye, st, sq, p, sl) ==
    CASE r = "explorer" -> ExplorerList[<<ys, ye, st, sq>>].url
      [] r = "data" -> DataList[p].url
      [] r = "detail" -> SlugUrl(sl)
      [] OTHER -> <<>>

CurrentKey ==
    KeyOf(route, yearStart, yearEnd, selectedTypes, searchQuery, page, slug)

CurrentUrl ==
    UrlOf(route, yearStart, yearEnd, selectedTypes, searchQuery, page, slug)

\* the query a component without a query of its own (the home page) sees
NoQuery == [NewQuery(<<>>) EXCEPT !.fetching = FALSE]

CurrentQuery == IF CurrentKey \in DOMAIN queries THEN queries[CurrentKey]
                ELSE NoQuery

\* useQuery: isLoading, isError
IsLoading(q) == q.status = "pending" /\ q.fetching

IsError(q) == q.status = "error"

\* a query starts its query function when it is new, and when an observer
\* mounts on a query that failed and holds no data
StartsFetch(key) ==
    /\ key # <<>>
    /\ \/ key \notin DOMAIN queries
       \/ /\ queries[key].status = "error"
          /\ ~queries[key].fetching

\* prev.includes(type), prev.filter(t => t !== type)
Includes(seq, x) == \E i \in 1..Len(seq) : seq[i] = x

\* a render of the component of route r with the given state: useQuery
\* subscribes to the query of the key, creating or restarting it when needed
Render(r, ys, ye, st, sq, p, sl) ==
    LET key == KeyOf(r, ys, ye, st, sq, p, sl)
        url == UrlOf(r, ys, ye, st, sq, p, sl)
    IN  /\ \/ key \in DOMAIN queries \cup {<<>>}
           \/ Cardinality(DOMAIN queries) < MaxQueries
        /\ route' = r
        /\ yearStart' = ys
        /\ yearEnd' = ye
        /\ selectedTypes' = st
        /\ searchQuery' = sq
        /\ page' = p
        /\ slug' = sl
        /\ queries' = IF StartsFetch(key)
                      THEN [k \in DOMAIN queries \cup {key} |->
                               IF k = key THEN NewQuery(url) ELSE queries[k]]
                      ELSE queries
        /\ issued' = IF StartsFetch(key)
                     THEN issued \cup {[key |-> key, url |-> url]}
                     ELSE issued
        /\ UNCHANGED <<late, nonAppVars>>

\* navigation to a page: its component mounts with its initial state
Navigate(r, sl) ==
    /\ r # route
    /\ Render(r, 1000, 2024, <<>>, <<>>, 1, IF r = "detail" THEN sl ELSE <<>>)
    /\ toggled' = {}

\* ExplorerContainer.tsx lines 94-109: the two sliders
SetYearStart(v) ==
    /\ route = "explorer"
    /\ v # yearStart
    /\ Render(route, v, yearEnd, selectedTypes, searchQuery, page, slug)
    /\ UNCHANGED toggled

SetYearEnd(v) ==
    /\ route = "explorer"
    /\ v # yearEnd
    /\ Render(route, yearStart, v, selectedTypes, searchQuery, page, slug)
    /\ UNCHANGED toggled

Max(a, b) == IF a > b THEN a ELSE b

\* prev.filter(t => t !== type)
Without(seq, x) == SelectSeq(seq, LAMBDA t : t # x)

\* variant: the type is added without looking for it in the selection
toggleType_AlwaysAppend(type) ==
    /\ route = "explorer"
    /\ Render(route, yearStart, yearEnd, Append(selectedTypes, type),
              searchQuery, page, slug)
    /\ toggled' = (toggled \ {type}) \cup ({type} \ toggled)

\* ExplorerContainer.tsx lines 55-59
toggleType(type) ==
    /\ route = "explorer"
    /\ Render(route, yearStart, yearEnd,
              IF Includes(selectedTypes, type) THEN Without(selectedTypes, type)
              ELSE Append(selectedTypes, type),
              searchQuery, page, slug)
    /\ toggled' = (toggled \ {type}) \cup ({type} \ toggled)

\* ExplorerContainer.tsx lines 114-120: the search box
SetSearchQuery(text) ==
    /\ route = "explorer"
    /\ text # searchQuery
    /\ Render(route, yearStart, yearEnd, selectedTypes, text, page, slug)
    /\ UNCHANGED toggled

\* DataContainer lines 329-351: the buttons exist once the list has data;
\* Previous is disabled on page 1, Next on the last page
PreviousPage ==
    /\ route = "data"
    /\ CurrentQuery.data.defined
    /\ page # 1
    /\ Render(route, yearStart, yearEnd, selectedTypes, searchQuery,
              Max(1, page - 1), slug)
    /\ UNCHANGED toggled

NextPage ==
    /\ route = "data"
    /\ CurrentQuery.data.defined
    /\ page # CurrentQuery.data.total_pages
    /\ Render(route, yearStart, yearEnd, selectedTypes, searchQuery,
              Min(CurrentQuery.data.total_pages, page + 1), slug)
    /\ UNCHANGED toggled

\* the query function of query k resolves with the response to its request
QueryFnResolve(k, payload) ==
    /\ k \in DOMAIN queries
    /\ queries[k].fetching
    /\ queries' = [queries EXCEPT ![k] =
                     [@ EXCEPT !.status = "success", !.fetching = FALSE,
                               !.failureCount = 0, !.failureReason = "none",
                               !.data = [for |-> queries[k].url,
                                         items |-> payload.items,
                                         total_pages |-> payload.total_pages,
                                         defined |-> TRUE]]]
    /\ late' = (late \/ k # CurrentKey)
    /\ UNCHANGED <<route, yearStart, yearEnd, selectedTypes, searchQuery, page,
                   slug, issued, toggled, nonAppVars>>

\* the query function of query k rejects: fetchAPI threw, for an error
\* response (http) or after its own retries of a failed fetch (network).
\* The query runs the function again until it failed DefaultRetry + 1 times,
\* as long as a component observes it.
QueryFnReject(k, reason) ==
    /\ k \in DOMAIN queries
    /\ queries[k].fetching
    /\ queries' = [queries EXCEPT ![k] =
                     IF @.failureCount < DefaultRetry /\ k = CurrentKey
                     THEN [@ EXCEPT !.failureCount = @ + 1,
                                    !.failureReason = reason]
                     ELSE [@ EXCEPT !.failureCount = @ + 1,
                                    !.failureReason = reason,
                                    !.status = "error", !.fetching = FALSE]]
    /\ issued' = IF queries[k].failureCount < DefaultRetry /\ k = CurrentKey
                 THEN issued \cup {[key |-> k, url |-> queries[k].url]}
                 ELSE issued
    /\ UNCHANGED <<route, yearStart, yearEnd, selectedTypes, searchQuery, page,
                   slug, late, toggled, nonAppVars>>

AppNext ==
    \/ \E r \in {"explorer", "data", "detail"}, sl \in AppSlugs :
          Navigate(r, sl)
    \/ \E v \in AppYears : SetYearStart(v)
    \/ \E v \in AppYears : SetYearEnd(v)
    \/ \E type \in AppTypes : toggleType(type)
    \/ \E text \in SearchTexts : SetSearchQuery(text)
    \/ PreviousPage
    \/ NextPage
    \/ \E k \in DOMAIN queries, payload \in Payloads : QueryFnResolve(k, payload)
    \/ \E k \in DOMAIN queries, reason \in FailureReasons : QueryFnReject(k, reason)

AppSpec == Init /\ [][AppNext]_vars

\* the cache removes a query that has no observer and no fetch under way,
\* once it was unobserved for the gcTime
Collect(k) ==
    /\ k \in DOMAIN queries
    /\ k # CurrentKey
    /\ ~queries[k].fetching
    /\ queries' = [j \in DOMAIN queries \ {k} |-> queries[j]]
    /\ issued' = {e \in issued : e.key # k}
    /\ UNCHANGED <<route, yearStart, yearEnd, selectedTypes, searchQuery, page,
                   slug, late, toggled, nonAppVars>>

\* a long stay in the explorer: the filters are moved, the lists arrive and
\* the lists no longer shown are removed from the cache
FilterNext ==
    \/ Navigate("explorer", <<>>)
    \/ \E v \in AppYears : SetYearStart(v)
    \/ \E v \in AppYears : SetYearEnd(v)
    \/ \E type \in AppTypes : toggleType(type)
    \/ \E k \in DOMAIN queries, payload \in Payloads : QueryFnResolve(k, payload)
    \/ \E k \in DOMAIN queries : Collect(k)

FilterSpec == Init /\ [][FilterNext]_vars

\* every use of useQuery in the components, for every state the component
\* can be in: the hash of its key and the request of its query function
QuerySites ==
    {[key |-> ExplorerListKey(ExplorerFilters(ys, ye, st, sq)),
      url |-> ConflictsUrl(ExplorerFilters(ys, ye, st, sq), Num(1), Num(100))] :
        <<ys, ye, st, sq>> \in
            SliderYears \X SliderYears \X TypeSelections \X SearchTexts}
    \cup {[key |-> ExplorerGeoJSONKey(ys, ye),
           url |-> GeoJSONUrl(Num(ys), Num(ye))] :
             <<ys, ye>> \in SliderYears \X SliderYears}
    \cup {[key |-> DataListKey(p),
           url |-> ConflictsUrl(NoFilters, Num(p), Num(25))] : p \in AppPages}
    \cup {[key |-> DetailKey(sl), url |-> SlugUrl(sl)] : sl \in AppSlugs}
    \cup {[key |-> StatsKey, url |-> StatsUrl],
          [key |-> DataTimelineKey,
           url |-> TimelineUrl(Num(1900), Num(2024), Str(<<"decade">>))],
          [key |-> TimelineChartKey,
           url |-> TimelineUrl(Num(1000), Num(2024), Str(<<"decade">>))],
          [key |-> StoryTimelineKey,
           url |-> TimelineUrl(Num(1000), Num(2024), Str(<<"century">>))]}

KeyDeterminesRequest(reqs) ==
    \A a \in reqs, b \in reqs : a.key = b.key => a.url = b.url

SitesKeyedByRequest == KeyDeterminesRequest(QuerySites)

\* C13: the key of a query determines its request: no two uses of useQuery and
\* no two fetches started share a key with different requests, and the data
\* the component shows is the response to the request built from its current
\* filters or page, whatever the order the responses arrived in
C13_KeyedByRequest ==
    /\ SitesKeyedByRequest
    /\ KeyDeterminesRequest(issued)
    /\ \A k \in DOMAIN queries : [key |-> k, url |-> queries[k].url] \in issued
    /\ CurrentQuery.data.defined => CurrentQuery.data.for = CurrentUrl

\* the explorer shows the list of its current filters after the response for
\* the filters it had before arrived late, with another content
C13_Witness ==
    /\ route = "explorer"
    /\ late
    /\ CurrentQuery.data.defined
    /\ \E k \in DOMAIN queries :
          /\ k # CurrentKey
          /\ queries[k].data.defined
          /\ queries[k].data.for # CurrentUrl
          /\ queries[k].data.items # CurrentQuery.data.items

\* ExplorerContainer.tsx lines 146-191: the branch of the list rendered, the
\* number of rows in it, and whether the count below the list is rendered
ExplorerListView(q) ==
    [branch |-> IF IsLoading(q) THEN "skeleton"
                ELSE IF q.data.defined /\ q.data.items = 0
                THEN "No conflicts found"
                ELSE "items",
     rows |-> IF IsLoading(q) \/ ~q.data.defined THEN 0 ELSE q.data.items,
     footer |-> q.data.defined]

\* DataContainer lines 279-351: the rows of the table body and whether the
\* pagination below the table is rendered
DataTableView(q) ==
    [branch |-> IF IsLoading(q) THEN "skeleton" ELSE "items",
     rows |-> IF IsLoading(q) \/ ~q.data.defined THEN 0 ELSE q.data.items,
     footer |-> q.data.defined]

\* the list the page shows
ListView == IF route = "explorer" THEN ExplorerListView(CurrentQuery)
            ELSE DataTableView(CurrentQuery)

\* C14: a list whose fetch failed is rendered as an explicit error state, and
\* a list is rendered as loading exactly while its first fetch is under way
C14_FailureRenderedAsError ==
    route \in {"explorer", "data"} =>
        /\ IsError(CurrentQuery) <=> ListView.branch = "error"
        /\ IsLoading(CurrentQuery) <=> ListView.branch = "skeleton"

\* C15: a query function that failed with a received error response is not
\* run again: the query is settled as failed after that one request
C15_ErrorResponseSurfacedAtOnce ==
    \A k \in DOMAIN queries :
        queries[k].failureReason = "http" =>
            /\ queries[k].status = "error"
            /\ ~queries[k].fetching
            /\ queries[k].failureCount = 1

\* ------------------------------------------------------------------------
\* The query service: list and timeline over the ConflictRecord store
\* ------------------------------------------------------------------------

\* the records the curation pipeline can write: best is -1 and start and end
\* are 0 where the record has no value
Catalogue ==
    {[id |-> 1, type |-> "war", best |-> 5000, start |-> 1757, end |-> 1757,
      region |-> "bengal", words |-> {"plassey", "battle"}],
     [id |-> 2, type |-> "famine", best |-> 3000000, start |-> 1943,
      end |-> 1944, region |-> "bengal", words |-> {"bengal", "famine"}],
     [id |-> 3, type |-> "war", best |-> -1, start |-> 1857, end |-> 1858,
      region |-> "delhi", words |-> {"uprising"}],
     [id |-> 4, type |-> "massacre", best |-> 400, start |-> 1919, end |-> 0,
      region |-> "punjab", words |-> {"amritsar", "massacre"}],
     [id |-> 5, type |-> "war", best |-> 100, start |-> 0, end |-> 0,
      region |-> "punjab", words |-> {"battle"}]}

Supplied(v) == v.t # "undef"

Dated(r) == r.start # 0

\* the last year of the extent of a record
EndOf(r) == IF r.end = 0 THEN r.start ELSE r.end

\* the type is one of the accepted types
TypeMatches(r, f) ==
    Supplied(f.conflict_type) =>
        \/ f.conflict_type.s = <<r.type>>
        \/ \E i \in 1..Len(f.conflict_type.items) :
              f.conflict_type.items[i].s = <<r.type>>

\* the best estimate is within the bounds supplied
CasualtiesMatch(r, f) ==
    /\ Supplied(f.min_casualties) => r.best # -1 /\ r.best >= f.min_casualties.n
    /\ Supplied(f.max_casualties) => r.best # -1 /\ r.best <= f.max_casualties.n

\* the extent of the record overlaps the inclusive year range
YearsMatch(r, f) ==
    /\ Supplied(f.year_start) => Dated(r) /\ EndOf(r) >= f.year_start.n
    /\ Supplied(f.year_end) => Dated(r) /\ r.start <= f.year_end.n

RegionMatches(r, f) == Supplied(f.region) => f.region.s = <<r.region>>

SearchMatches(r, f) ==
    Supplied(f.search) => \E w \in r.words : f.search.s = <<w>>

\* variant: a record is listed when any of the supplied filters accepts it
Matches_AnyFilter(r, f) ==
    \/ ~\E name \in DOMAIN f : Supplied(f[name])
    \/ Supplied(f.conflict_type) /\ TypeMatches(r, f)
    \/ (Supplied(f.min_casualties) \/ Supplied(f.max_casualties))
       /\ CasualtiesMatch(r, f)
    \/ (Supplied(f.year_start) \/ Supplied(f.year_end)) /\ YearsMatch(r, f)
    \/ Supplied(f.region) /\ RegionMatches(r, f)
    \/ Supplied(f.search) /\ SearchMatches(r, f)

\* the filters of a list request, applied together
Matches(r, f) ==
    /\ TypeMatches(r, f)
    /\ CasualtiesMatch(r, f)
    /\ YearsMatch(r, f)
    /\ RegionMatches(r, f)
    /\ SearchMatches(r, f)

\* the stable default order: chronological, then by id
Before(a, b) == a.start < b.start \/ (a.start = b.start /\ a.id < b.id)

RECURSIVE Chronological(_)
Chronological(S) ==
    IF S = {} THEN <<>>
    ELSE LET first == CHOOSE r \in S : \A o \in S \ {r} : Before(r, o)
         IN  <<first>> \o Chronological(S \ {first})

\* the number of pages of total records
PagesOf(total, size) == (total + size - 1) \div size

ErrorReply == [NoReply EXCEPT !.kind = "error"]

\* variant: a page beyond the last one is answered with an error
ListResponse_PastEndIsError(S, f, p, size) ==
    LET matched == Chronological({r \in S : Matches(r, f)})
        total == Len(matched)
    IN  IF p < 1 \/ size < 1 \/ p > PagesOf(total, size) THEN ErrorReply
        ELSE [NoReply EXCEPT
                !.kind = "list",
                !.items = SubSeq(matched, (p - 1) * size + 1,
                                 Min(p * size, total)),
                !.total = total, !.page = p, !.page_size = size,
                !.total_pages = PagesOf(total, size)]

\* List conflicts(filters, page, page_size): a page of the matching records,
\* the total count and the number of pages; invalid pagination is an error
ListResponse(S, f, p, size) ==
    LET matched == Chronological({r \in S : Matches(r, f)})
        total == Len(matched)
    IN  IF p < 1 \/ size < 1 THEN ErrorReply
        ELSE [NoReply EXCEPT
                !.kind = "list",
                !.items = SubSeq(matched, (p - 1) * size + 1,
                                 Min(p * size, total)),
                !.total = total, !.page = p, !.page_size = size,
                !.total_pages = PagesOf(total, size)]

\* the years of one bucket
WidthOf(g) == CASE g = "year" -> 1 [] g = "decade" -> 10 [] OTHER -> 100

BucketOf(y, w) == (y \div w) * w

RECURSIVE Ascending(_)
Ascending(S) ==
    IF S = {} THEN <<>>
    ELSE LET least == CHOOSE x \in S : \A y \in S : x <= y
         IN  <<least>> \o Ascending(S \ {least})

RECURSIVE SumBest(_)
SumBest(S) ==
    IF S = {} THEN 0
    ELSE LET r == CHOOSE x \in S : TRUE
         IN  (IF r.best = -1 THEN 0 ELSE r.best) + SumBest(S \ {r})

\* the records a bucket counts: those that start in it
StartsIn(r, b, w) == BucketOf(r.start, w) = b

\* variant: a record is counted in every bucket its extent touches
CountedIn_EveryBucket(r, b, w) ==
    BucketOf(r.start, w) <= b /\ b <= BucketOf(EndOf(r), w)

CountedIn(r, b, w) == StartsIn(r, b, w)

\* Get timeline(year_start, year_end, granularity): one point per bucket
\* that holds a record starting in the range or lies within the range
TimelineResponse(S, ys, ye, g) ==
    LET w == WidthOf(g)
        inRange == {r \in S : Dated(r) /\ ys <= r.start /\ r.start <= ye}
        bucketStarts == {BucketOf(r.start, w) : r \in inRange}
                        \cup {b \in ys..ye : b % w = 0 /\ b + w - 1 <= ye}
        order == Ascending(bucketStarts)
    IN  [NoReply EXCEPT
           !.kind = "timeline",
           !.points = [i \in 1..Len(order) |->
                         LET counted == {r \in inRange : CountedIn(r, order[i], w)}
                         IN  [year |-> order[i],
                              count |-> Cardinality(counted),
                              casualties |-> SumBest(counted),
                              conflicts |-> {r.id : r \in counted}]]]

\* the curation pipeline writes a record, between two requests: a response
\* is computed from the store of one moment
EtlWrite(r) ==
    /\ beReq = NoRequest
    /\ r \notin store
    /\ store' = store \cup {r}
    /\ UNCHANGED <<beReq, beResp, nonBackendVars>>

\* the service answers one request after the other
ListConflicts(f, p, size) ==
    /\ beReq = NoRequest
    /\ beReq' = [NoRequest EXCEPT !.op = "list", !.filters = f, !.page = p,
                                  !.page_size = size]
    /\ beResp' = ListResponse(store, f, p, size)
    /\ UNCHANGED <<store, nonBackendVars>>

GetTimeline(ys, ye, g) ==
    /\ beReq = NoRequest
    /\ beReq' = [NoRequest EXCEPT !.op = "timeline", !.year_start = ys,
                                  !.year_end = ye, !.granularity = g]
    /\ beResp' = TimelineResponse(store, ys, ye, g)
    /\ UNCHANGED <<store, nonBackendVars>>

\* the response is sent
Reply ==
    /\ beReq # NoRequest
    /\ beReq' = NoRequest
    /\ beResp' = NoReply
    /\ UNCHANGED <<store, nonBackendVars>>

\* the filters, pages and ranges the model requests
BackendFilters ==
    {[NoFilters EXCEPT !.year_start = ys, !.year_end = ye,
                       !.conflict_type = ct, !.min_casualties = lo,
                       !.max_casualties = hi, !.region = rg, !.search = sq] :
        <<ys, ye, ct>> \in
            {Undef, Num(1800)} \X {Undef, Num(1900)}
            \X {Undef, Arr(<<Str(<<"war">>)>>),
                Arr(<<Str(<<"war">>), Str(<<"famine">>)>>)},
        <<lo, hi>> \in
            {<<Undef, Undef>>, <<Num(1000), Undef>>, <<Num(1000), Num(10000)>>},
        <<rg, sq>> \in
            {<<Undef, Undef>>, <<Str(<<"bengal">>), Undef>>,
             <<Undef, Str(<<"battle">>)>>}}

BackendPages == 0..3

BackendPageSizes == {0, 2}

BackendNext ==
    \/ \E r \in Catalogue : EtlWrite(r)
    \/ \E f \in BackendFilters, p \in BackendPages, size \in BackendPageSizes :
          ListConflicts(f, p, size)
    \/ \E ys \in {1850, 1915}, ye \in {1925, 1945},
          g \in {"year", "decade", "century"} : GetTimeline(ys, ye, g)
    \/ Reply

BackendSpec == Init /\ [][BackendNext]_vars

\* the number of records of the store that pass the filters
MatchCount(f) == Cardinality({r \in store : Matches(r, f)})

\* C16: every record of a list response passes every filter supplied with
\* the request: its type is among the accepted types, its best estimate is
\* within the casualty bounds, its extent overlaps the year range, and its
\* region and text match; a request without filters lists every record
C16_ItemsPassAllFilters ==
    beResp.kind = "list" =>
        LET f == beReq.filters
        IN  /\ \A i \in 1..Len(beResp.items) :
                 LET r == beResp.items[i]
                 IN  /\ r \in store
                     /\ Supplied(f.conflict_type) =>
                          \E j \in 1..Len(f.conflict_type.items) :
                              f.conflict_type.items[j] = Str(<<r.type>>)
                     /\ Supplied(f.min_casualties) =>
                          r.best # -1 /\ r.best >= f.min_casualties.n
                     /\ Supplied(f.max_casualties) =>
                          r.best # -1 /\ r.best <= f.max_casualties.n
                     /\ Supplied(f.year_start) =>
                          r.start # 0 /\ EndOf(r) >= f.year_start.n
                     /\ Supplied(f.year_end) =>
                          r.start # 0 /\ r.start <= f.year_end.n
                     /\ Supplied(f.region) => f.region = Str(<<r.region>>)
                     /\ Supplied(f.search) =>
                          \E w \in r.words : f.search = Str(<<w>>)
            /\ f = NoFilters => beResp.total = Cardinality(store)

\* the one record that passes a request with types, a casualty bound and a
\* first year, from a store that also holds records failing each of them
C16_Witness ==
    /\ beResp.kind = "list"
    /\ Len(beResp.items) = 1
    /\ beResp.items[1].id = 2
    /\ Supplied(beReq.filters.conflict_type)
    /\ Supplied(beReq.filters.min_casualties)
    /\ Supplied(beReq.filters.year_start)
    /\ Cardinality(store) = 5

\* C17: a page beyond the last one is answered with a list response without
\* items, whose total is that of the first page for the same filters
C17_PageBeyondLastIsEmpty ==
    (beReq.op = "list" /\ beReq.page >= 1 /\ beReq.page_size >= 1
     /\ beReq.page > PagesOf(MatchCount(beReq.filters), beReq.page_size)) =>
        /\ beResp.kind = "list"
        /\ beResp.items = <<>>
        /\ beResp.total = MatchCount(beReq.filters)
        /\ beResp.total =
             ListResponse(store, beReq.filters, 1, beReq.page_size).total

\* page 3 of a list of three records in pages of two
C17_Witness ==
    /\ beReq.op = "list"
    /\ beReq.page = 3
    /\ beReq.page_size = 2
    /\ beResp.kind = "list"
    /\ beResp.total = 3
    /\ beResp.total_pages = 2
    /\ beResp.items = <<>>

RECURSIVE SumCounts(_)
SumCounts(points) ==
    IF points = <<>> THEN 0 ELSE points[1].count + SumCounts(Tail(points))

\* C18: the points of a timeline are strictly ascending by year, and their
\* counts add up to the number of records of the store whose start year is
\* known and within the range
C18_AscendingAndComplete ==
    beResp.kind = "timeline" =>
        /\ \A i \in 1..(Len(beResp.points) - 1) :
              beResp.points[i].year < beResp.points[i + 1].year
        /\ SumCounts(beResp.points) =
             Cardinality({r \in store : /\ r.start # 0
                                        /\ beReq.year_start <= r.start
                                        /\ r.start <= beReq.year_end})

\* a timeline by year over a store with a record that spans the two years
\* 1857 and 1858: it is counted in the bucket of 1857 only
C18_Witness ==
    /\ beResp.kind = "timeline"
    /\ beReq.granularity = "year"
    /\ \E r \in store : r.start = 1857 /\ r.end = 1858
    /\ \E i \in 1..Len(beResp.points) :
          beResp.points[i].year = 1857 /\ beResp.points[i].count = 1
    /\ \E i \in 1..Len(beResp.points) :
          beResp.points[i].year = 1858 /\ beResp.points[i].count = 0
    /\ SumCounts(beResp.points) >= 2

\* ------------------------------------------------------------------------
\* The log endpoint: POST with its rate limit per client address
\* ------------------------------------------------------------------------

\* line 25: (buckets[ip] || []).filter((ts) => ts >= windowStart)
Recent(ts, windowStart) == SelectSeq(ts, LAMBDA t : t >= windowStart)

RECURSIVE SumOver(_, _)
SumOver(f, S) ==
    IF S = {} THEN 0
    ELSE LET x == CHOOSE y \in S : TRUE IN f[x] + SumOver(f, S \ {x})

\* the payloads accepted so far, and the requests suspended on their body
AcceptedInAll == SumOver([ip \in IPs |-> SumOver(accepted[ip], LogTimes)], IPs)

Reading == {h \in 1..MaxHandlers : handlers[h].pc = "reading"}

\* lines 16-30: a POST request arrives: the address, the instant and the
\* recent part of the bucket are taken; a full bucket answers 429, else the
\* handler suspends on req.json()
PostStart(h, ip) ==
    LET bucket == Recent(buckets[ip], logNow - WindowMs)
    IN  /\ AcceptedInAll + Cardinality(Reading) < MaxAccepted
        /\ handlers[h].pc = "idle"
        /\ \A g \in 1..(h - 1) : handlers[g].pc # "idle"
        /\ IF Len(bucket) >= RATE_LIMIT_MAX
           THEN /\ replied' = 429
                /\ UNCHANGED handlers
           ELSE /\ handlers' = [handlers EXCEPT ![h] =
                                  [pc |-> "reading", ip |-> ip, now |-> logNow,
                                   bucket |-> bucket]]
                /\ UNCHANGED replied
        /\ UNCHANGED <<buckets, logNow, accepted, nonLogVars>>

\* lines 30-53: the body arrived: an invalid payload answers 400, a valid one
\* is pushed on the handler's copy of the bucket, which replaces buckets[ip]
PostBody(h, valid) ==
    LET req == handlers[h]
    IN  /\ req.pc = "reading"
        /\ handlers' = [handlers EXCEPT ![h] = IdleHandler]
        /\ IF valid
           THEN /\ buckets' = [buckets EXCEPT ![req.ip] =
                                 Append(req.bucket, req.now)]
                /\ accepted' = [accepted EXCEPT ![req.ip][req.now] = @ + 1]
                /\ replied' = 200
           ELSE /\ replied' = 400
                /\ UNCHANGED <<buckets, accepted>>
        /\ UNCHANGED <<logNow, nonLogVars>>

\* time passes on the server
LogTick ==
    /\ logNow < MaxLogTicks * LogStep
    /\ logNow' = logNow + LogStep
    /\ UNCHANGED <<buckets, handlers, accepted, replied, nonLogVars>>

LogNext ==
    \/ \E h \in 1..MaxHandlers, ip \in IPs : PostStart(h, ip)
    \/ \E h \in 1..MaxHandlers, valid \in BOOLEAN : PostBody(h, valid)
    \/ LogTick

LogSpec == Init /\ [][LogNext]_vars

\* the payloads of ip accepted with an instant in the window starting at w
AcceptedIn(ip, w) ==
    SumOver(accepted[ip], {t \in LogTimes : w <= t /\ t < w + WindowMs})

\* C19: for every client address and every window of 60 seconds, at most
\* RATE_LIMIT_MAX requests with an instant in the window were answered
\* ok: true
C19_AtMostMaxPerWindow ==
    \A ip \in IPs, w \in LogTimes : AcceptedIn(ip, w) <= RATE_LIMIT_MAX

\* C21: the data table never asks the backend for a page below 1, whatever
\* the loaded response and the clicks on Previous and Next
C21_PageAtLeastOne ==
    /\ route = "data" => page >= 1
    /\ \A p \in AppPages :
          [key |-> DataListKey(p),
           url |-> ConflictsUrl(NoFilters, Num(p), Num(25))] \in issued => p >= 1

\* C22: the year range the explorer sends with its list and geojson requests
\* is ordered: year_start <= year_end
C22_YearRangeOrdered ==
    route = "explorer" =>
        /\ yearStart <= yearEnd
        /\ ExplorerFilters(yearStart, yearEnd, selectedTypes,
                           searchQuery).year_start.n
             <= ExplorerFilters(yearStart, yearEnd, selectedTypes,
                                searchQuery).year_end.n

\* C24: in the explorer selectedTypes holds no type twice and holds a type
\* exactly when it was toggled an odd number of times, so a second toggle of a
\* type undoes the first; with an empty selection the filters have no
\* conflict_type and the request that was sent has no conflict_type parameter.
C24_SelectionIsToggleParity ==
    route = "explorer" =>
        /\ \A i, j \in 1..Len(selectedTypes) :
               i # j => selectedTypes[i] # selectedTypes[j]
        /\ \A t \in AppTypes : Includes(selectedTypes, t) <=> t \in toggled
        /\ selectedTypes = <<>> =>
               /\ ExplorerFilters(yearStart, yearEnd, selectedTypes,
                                  searchQuery).conflict_type = Undef
               /\ CurrentKey \in DOMAIN queries
               /\ ~Includes(queries[CurrentKey].url, "conflict_type")
        /\ selectedTypes # <<>> =>
               /\ CurrentKey \in DOMAIN queries
               /\ Includes(queries[CurrentKey].url, "conflict_type")

\* war was toggled on, then famine, then war off again: the list of the
\* selection war, famine is still cached and only famine is selected
C24_Witness ==
    /\ route = "explorer"
    /\ selectedTypes = <<"famine">>
    /\ toggled = {"famine"}
    /\ ExplorerList[<<yearStart, yearEnd, <<"war", "famine">>, searchQuery>>].key
           \in DOMAIN queries

\* C30: the retry loop of fetchAPI is left only with a response or by the
\* network error thrown from the catch block: past the loop the response is
\* never null and the error "No response received" is never thrown.
C30_NoResponseUnreachable ==
    /\ error # <<"No response received">>
    /\ pc \in {"okbody", "errbody", "returned"} => response # NoResponse
    /\ pc = "thrown" =>
           \/ response # NoResponse
           \/ /\ Len(error) = 2
              /\ error[1] = "Network error: "
              /\ attempt = maxRetries + 1
    /\ response # NoResponse =>
           /\ outcomes # <<>>
           /\ outcomes[Len(outcomes)].kind = "response"
           /\ attempt <= maxRetries

\* the loop was left with a response at the last attempt allowed
C30_Witness ==
    /\ pc \in {"okbody", "errbody"}
    /\ attempt = 2
    /\ maxRetries = 2
    /\ response # NoResponse

\* ------------------------------------------------------------------------
\* debounce (part_006)
\* ------------------------------------------------------------------------

\* the instant of the last entry of the history
LastEventAt == IF dLog = <<>> THEN 0 ELSE dLog[Len(dLog)].at

CallCount == Cardinality({i \in DOMAIN dLog : dLog[i].kind = "call"})

\* debounce(fn, d): the debounced function is made, no timer is set
debounce(d) ==
    /\ delay = 0
    /\ delay' = d
    /\ UNCHANGED <<timeoutId, dNow, dLog, nonDebounceVars>>

\* the returned function is called: the pending timer is cleared and a new
\* one is set for fn with these arguments
Debounced(args) ==
    /\ delay # 0
    /\ CallCount < MaxCalls
    /\ timeoutId' = [due |-> dNow + delay, args |-> args]
    /\ dLog' = Append(dLog, [kind |-> "call", at |-> dNow, args |-> args])
    /\ UNCHANGED <<delay, dNow, nonDebounceVars>>

\* variant: the callback runs as soon as the timer is set
DebounceFire_Early ==
    /\ timeoutId # NoTimeout
    /\ dLog' = Append(dLog, [kind |-> "fn", at |-> dNow, args |-> timeoutId.args])
    /\ timeoutId' = NoTimeout
    /\ UNCHANGED <<delay, dNow, nonDebounceVars>>

\* the timer callback runs, at its due time or later: fn(...args)
DebounceFire ==
    /\ timeoutId # NoTimeout
    /\ dNow >= timeoutId.due
    /\ dLog' = Append(dLog, [kind |-> "fn", at |-> dNow, args |-> timeoutId.args])
    /\ timeoutId' = NoTimeout
    /\ UNCHANGED <<delay, dNow, nonDebounceVars>>

\* time passes; a due timer may wait for the event loop
DebounceTick ==
    /\ delay # 0
    /\ dNow - LastEventAt < 2 * delay
    /\ CallCount < MaxCalls \/ timeoutId # NoTimeout
    /\ dNow' = dNow + DStep
    /\ UNCHANGED <<delay, timeoutId, dLog, nonDebounceVars>>

DebounceNext ==
    \/ \E d \in Delays : debounce(d)
    \/ \E args \in DebounceArgs : Debounced(args)
    \/ DebounceFire
    \/ DebounceTick

DebounceSpec ==
    Init /\ [][DebounceNext]_vars /\ WF_vars(DebounceFire) /\ WF_vars(DebounceTick)

\* the calls of the debounced function and the invocations of fn, as
\* positions of the history
CallsAt == {i \in DOMAIN dLog : dLog[i].kind = "call"}

FnAt == {i \in DOMAIN dLog : dLog[i].kind = "fn"}

\* the call that follows call c, or 0
NextCall(c) ==
    IF \E i \in CallsAt : i > c
    THEN CHOOSE i \in CallsAt : i > c /\ \A k \in CallsAt : k > c => k >= i
    ELSE 0

\* the invocations of fn between call c and the call that follows it
FnAfter(c) ==
    {j \in FnAt : j > c /\ (NextCall(c) = 0 \/ j < NextCall(c))}

\* an invocation made for call c: its arguments, not before its delay
InvokedFor(j, c) ==
    /\ dLog[j].args = dLog[c].args
    /\ dLog[j].at >= dLog[c].at + delay

\* call c ends a burst that another call follows: the next call comes delay
\* or more after it
EndsBurst(c) ==
    /\ NextCall(c) # 0
    /\ dLog[NextCall(c)].at - dLog[c].at >= delay

\* C23 as stated: every burst of calls less than delay apart has fn invoked
\* exactly once, after the delay since its last call and with the arguments
\* of its last call, and fn is not invoked for a call that a newer call of
\* the burst follows.
C23_ExactlyOncePerBurst ==
    \A c \in CallsAt :
        /\ \A j \in FnAfter(c) : InvokedFor(j, c)
        /\ Cardinality(FnAfter(c)) <= 1
        /\ NextCall(c) # 0 /\ ~EndsBurst(c) => FnAfter(c) = {}
        /\ EndsBurst(c) => Cardinality(FnAfter(c)) = 1

C23_TimerSafe ==
    \A c \in CallsAt :
        /\ \A j \in FnAfter(c) : InvokedFor(j, c)
        /\ Cardinality(FnAfter(c)) <= 1
        /\ NextCall(c) # 0 /\ ~EndsBurst(c) => FnAfter(c) = {}
        /\ timeoutId # NoTimeout /\ NextCall(c) = 0 =>
               /\ FnAfter(c) = {}
               /\ timeoutId = [due |-> dLog[c].at + delay, args |-> dLog[c].args]

\* C23 amended: fn is invoked at most once after a call and before the next,
\* with that call's arguments and not before delay has elapsed since it, and
\* never for a call followed by another less than delay later; the timer of
\* the latest call stays pending until it runs or a newer call replaces it,
\* and one of the two happens. (A call that arrives delay or more after the
\* previous one, but before the due timer has run, replaces it: that burst
\* has no invocation.)
C23_InvokedOncePerTimer ==
    /\ []C23_TimerSafe
    /\ \A n \in 1..(MaxCalls + 1) :
           (CallCount = n /\ timeoutId # NoTimeout)
               ~> (CallCount > n \/ (timeoutId = NoTimeout /\ FnAt # {}))

\* a burst of two calls with different arguments, then fn with the second's
C23_Witness ==
    /\ Len(dLog) = 3
    /\ dLog[1].kind = "call" /\ dLog[2].kind = "call" /\ dLog[3].kind = "fn"
    /\ dLog[2].at - dLog[1].at < delay
    /\ dLog[2].at > dLog[1].at
    /\ dLog[1].args # dLog[2].args
    /\ dLog[3].args = dLog[2].args

\* ------------------------------------------------------------------------
\* ImageWithFallback
\* ------------------------------------------------------------------------

\* the parent renders the component with another src: the effect of lines
\* 27-31 resets the state
SetSrc(s) ==
    /\ s # src
    /\ src' = s
    /\ currentSrc' = s
    /\ loading' = TRUE
    /\ hasError' = FALSE
    /\ failed' = FALSE
    /\ UNCHANGED <<lookups, nonImageVars>>

\* onLoad: the image shown has loaded
OnLoad ==
    /\ loading
    /\ loading' = FALSE
    /\ UNCHANGED <<src, currentSrc, hasError, lookups, failed, nonImageVars>>

\* onError: the image shown failed to load; handleError runs up to its
\* await of fetchExternalImage(alt)
OnError ==
    /\ loading
    /\ Len(lookups) < MaxLookups
    /\ lookups' = Append(lookups, [started |-> src])
    /\ failed' = (currentSrc = src /\ ~hasError)
    /\ UNCHANGED <<src, currentSrc, loading, hasError, nonImageVars>>

\* fetchExternalImage resolves and handleError goes on from line 36
LookupResolves(i, wikiImg) ==
    /\ i \in 1..Len(lookups)
    /\ currentSrc' = IF wikiImg # "" THEN wikiImg ELSE fallbackSrc
    /\ hasError' = TRUE
    /\ loading' = FALSE
    /\ lookups' = [k \in 1..(Len(lookups) - 1) |->
                       IF k < i THEN lookups[k] ELSE lookups[k + 1]]
    /\ UNCHANGED <<src, failed, nonImageVars>>

ImageNext ==
    \/ \E s \in ImageSrcs : SetSrc(s)
    \/ OnLoad
    \/ OnError
    \/ \E i \in 1..MaxLookups, wikiImg \in ExternalImages : LookupResolves(i, wikiImg)

ImageSpec == Init /\ [][ImageNext]_vars

\* C25: a fallback lookup started for an earlier src never changes what is
\* shown for the present src: as long as the image of the present src has not
\* failed to load, the component shows it (currentSrc = src) in the
\* non-error state.
C25_StaleLookupIgnored ==
    ~failed => (currentSrc = src /\ ~hasError)

\* ------------------------------------------------------------------------
\* MapExplorer: seededOffset
\* ------------------------------------------------------------------------

\* a 32-bit two's complement integer from its two 16-bit halves
Int32(hi, lo) ==
    IF hi >= 32768 THEN (hi - 65536) * 65536 + lo ELSE hi * 65536 + lo

\* lines 22-23: hash = (hash << 5) - hash + code; hash |= 0, that is
\* 31 * hash + code wrapped to 32 bits, computed on 16-bit halves
HashStep(h, code) ==
    LET lo == h % 65536
        hi == ((h - lo) \div 65536) % 65536
        t == lo * 31 + code
    IN  Int32((hi * 31 + (t \div 65536)) % 65536, t % 65536)

\* lines 20-24: the hash of a whole key
RECURSIVE HashOf(_)
HashOf(k) ==
    IF k = <<>> THEN 0 ELSE HashStep(HashOf(SubSeq(k, 1, Len(k) - 1)), k[Len(k)])

\* a % b of JavaScript: the remainder has the sign of the dividend
JsRemainder(a, b) ==
    LET m == a % b IN IF a < 0 /\ m # 0 THEN m - b ELSE m

\* lines 25-26 in thousandths: normalize = (hash % 1000) / 1000 and
\* (normalize - 0.5) * 2
OffsetOfHash(h) == (JsRemainder(h, 1000) - 500) * 2

\* seededOffset(key), in thousandths
seededOffset(k) == OffsetOfHash(HashOf(k))

\* one turn of the loop of lines 21-24
HashLoop(code) ==
    /\ Len(offsetKey) < MaxKeyLen
    /\ offsetKey' = Append(offsetKey, code)
    /\ hash' = HashStep(hash, code)
    /\ UNCHANGED nonOffsetVars

OffsetNext == \E code \in CharCodes : HashLoop(code)

OffsetSpec == Init /\ [][OffsetNext]_vars

\* C26: for every key the hash is a 32-bit signed integer, hash % 1000 lies
\* in 0..999 and seededOffset(key) lies between -1 and 1 (thousandths:
\* -1000..1000), so that the displacement 0.3 * seededOffset(key) is at most
\* 0.3 degrees.
C26_OffsetWithinUnit ==
    /\ hash = HashOf(offsetKey)
    /\ hash >= -2147483647 - 1 /\ hash <= 2147483647
    /\ JsRemainder(hash, 1000) \in 0..999
    /\ OffsetOfHash(hash) \in -1000..1000
    /\ 3 * OffsetOfHash(hash) \in -3000..3000

\* ------------------------------------------------------------------------
\* MapExplorer: markers
\* ------------------------------------------------------------------------

\* return null of lines 34 and 40
NoMarker == [rendered |-> FALSE, longitude |-> 0, latitude |-> 0]

\* the number a coordinate is in lng + ...: null counts as 0
ToNumber(v) == IF v.kind = "number" THEN v.n ELSE 0

\* line 39: v === undefined || Number.isNaN(v)
Skipped(v) == v.kind \in {"undefined", "NaN"}

\* lines 32-76 for one feature; index as its decimal digit, positions in
\* ten-thousandths of a degree
MarkerOf(feature, index) ==
    IF feature.geometry # "point" THEN NoMarker
    ELSE IF Skipped(feature.lng) \/ Skipped(feature.lat) THEN NoMarker
    ELSE [rendered |-> TRUE,
          longitude |-> ToNumber(feature.lng) * 10000
                          + seededOffset(<<48 + index>>) * 3,
          latitude |-> ToNumber(feature.lat) * 10000
                          + seededOffset(<<48 + index, 108, 97, 116>>) * 3]

\* the parent passes a collection with one more feature and the markers are
\* computed again
GeoJsonArrives(feature) ==
    /\ Len(geoJsonData) < MaxFeatures
    /\ geoJsonData' = Append(geoJsonData, feature)
    /\ markers' = [i \in 1..(Len(geoJsonData) + 1) |->
                      MarkerOf(Append(geoJsonData, feature)[i], i - 1)]
    /\ UNCHANGED nonMarkerVars

MarkerNext == \E feature \in Features : GeoJsonArrives(feature)

MarkerSpec == Init /\ [][MarkerNext]_vars

\* C27: a marker is rendered only for a feature with two numeric
\* coordinates; a feature without geometry or coordinates, or with an
\* undefined, null or NaN longitude or latitude, gets none, and there are
\* never more markers than features.
C27_MarkersOnlyForNumericCoordinates ==
    /\ Len(markers) = Len(geoJsonData)
    /\ \A i \in 1..Len(markers) :
           markers[i].rendered <=>
               /\ geoJsonData[i].geometry = "point"
               /\ geoJsonData[i].lng.kind = "number"
               /\ geoJsonData[i].lat.kind = "number"

\* ------------------------------------------------------------------------
\* ToastProvider
\* ------------------------------------------------------------------------

\* lines 16-22: the toast gets id = Date.now() and a timer that removes the
\* toasts of that id; nth tells the calls apart
addToast ==
    /\ added < MaxToasts
    /\ added' = added + 1
    /\ toasts' = Append(toasts, [id |-> toastNow, nth |-> added + 1])
    /\ toastTimers' = toastTimers \cup
           {[id |-> toastNow, due |-> toastNow + ToastMs, nth |-> added + 1]}
    /\ UNCHANGED <<toastNow, nonToastVars>>

\* line 20: the callback of a due timer runs, timers of one due time in the
\* order they were set: prev.filter(t => t.id !== id)
ToastTimerFires(timer) ==
    /\ timer \in toastTimers
    /\ toastNow >= timer.due
    /\ \A other \in toastTimers : other.due = timer.due => other.nth >= timer.nth
    /\ toasts' = SelectSeq(toasts, LAMBDA t : t.id # timer.id)
    /\ toastTimers' = toastTimers \ {timer}
    /\ UNCHANGED <<toastNow, added, nonToastVars>>

\* time passes, up to the next due timer
ToastTick ==
    /\ toastTimers # {}
    /\ \A timer \in toastTimers : timer.due > toastNow
    /\ toastNow' = IF \E timer \in toastTimers : timer.due < toastNow + ToastStep
                   THEN CHOOSE d \in {timer.due : timer \in toastTimers} :
                            \A timer \in toastTimers : timer.due >= d
                   ELSE toastNow + ToastStep
    /\ UNCHANGED <<toasts, toastTimers, added, nonToastVars>>

ToastNext ==
    \/ addToast
    \/ \E timer \in toastTimers : ToastTimerFires(timer)
    \/ ToastTick

ToastSpec ==
    /\ Init /\ [][ToastNext]_vars
    /\ WF_vars(ToastTick)
    /\ WF_vars(\E timer \in toastTimers : ToastTimerFires(timer))

\* the toast of the nth call of addToast is shown
Shown(nth) == \E i \in 1..Len(toasts) : toasts[i].nth = nth

\* every toast shown is removed in the end, and not later than ToastMs
\* after it was added
EveryToastRemoved ==
    /\ \A nth \in 1..(MaxToasts + 1) : Shown(nth) ~> ~Shown(nth)
    /\ [](\A i \in 1..Len(toasts) : toastNow <= toasts[i].id + ToastMs)

\* C28: every toast is removed in the end, and a toast is not removed before
\* its own timer has run: a toast whose timer is still pending is shown, also
\* when several toasts were added in the same millisecond.
C28_NotRemovedBeforeOwnTimer ==
    \A timer \in toastTimers : Shown(timer.nth)

\* ------------------------------------------------------------------------
\* StatsChart (part_002)
\* ------------------------------------------------------------------------

\* the number of elements in the svg
Elements(drawing) == drawing.groups + Len(drawing.rects) + drawing.axes

\* variant of line 84: the previous drawing is kept
Cleared_Kept(drawing) == drawing

\* line 84: svg.selectAll("*").remove()
Cleared(drawing) == EmptySvg

\* lines 86-128 on the svg content left by line 84: the group g, then for a
\* non-empty array one rect per datum and, where d3 has axes, the two axis
\* groups
Drawn(drawing, dat, aHeight, hasAxes) ==
    [groups |-> drawing.groups + 1,
     rects |-> IF Len(dat) = 0 THEN drawing.rects ELSE drawing.rects \o dat,
     axes |-> IF Len(dat) # 0 /\ hasAxes THEN drawing.axes + 2 ELSE drawing.axes,
     innerHeight |-> Max(aHeight - 12 - 30, 0)]

\* the component is rendered with these props and the effect of lines 80-129
\* runs
StatsChart(dat, aHeight, hasAxes) ==
    /\ chartData' = dat
    /\ chartHeight' = aHeight
    /\ removed' = Elements(svg) - Elements(Cleared(svg))
    /\ svg' = Drawn(Cleared(svg), dat, aHeight, hasAxes)
    /\ UNCHANGED nonChartVars

ChartNext ==
    \E dat \in ChartData, aHeight \in ChartHeights, hasAxes \in BOOLEAN :
        StatsChart(dat, aHeight, hasAxes)

ChartSpec == Init /\ [][ChartNext]_vars

\* C29: for every data array the svg holds the drawing of that array alone,
\* one rect per datum; for an empty array the previous drawing is gone and
\* there is no bar and no axis, only the empty group.
C29_EmptyDataDrawsNothing ==
    /\ svg.rects = chartData
    /\ svg.groups \in {0, 1}
    /\ svg.axes \in {0, 2}
    /\ chartData = <<>> => svg.rects = <<>> /\ svg.axes = 0

\* an empty array was drawn over a chart with two bars and axes
C29_Witness ==
    /\ chartData = <<>>
    /\ svg.groups = 1
    /\ removed = 5

====
